---- MODULE Spec2Model ----
(***************************************************************************)
(* Model of the protocol extractor of blockscout-ens                       *)
(* (graph-node/subgraph-writer/protocol-extractor): events.py and          *)
(* extractor.py.                                                           *)
(*                                                                         *)
(* Python values are encoded as follows.                                   *)
(*   str            a sequence of code points (so that <, startswith and   *)
(*                  truthiness are computed, not assumed)                  *)
(*   x.get(k)       an optional value: <<>> is None (key absent),          *)
(*                  <<v>> is the value v                                   *)
(*   ABI entry      [name : optional str, type : optional str,             *)
(*                   inputs : sequence of input type strings]              *)
(*   dict           a sequence of [key, value] pairs in insertion order    *)
(***************************************************************************)
EXTENDS Integers, Sequences, FiniteSets, TLC

--------------------------------------------------------------------------
(* Bounds of the model. *)

\* longest raw ABI handed to abi_from_str
MaxAbiLen == 3
\* most entries of the pool file
MaxPool == 2
\* most extra ABIs on the command line
MaxExtra == 1
\* most roles of the role configuration
MaxRoles == 2
\* most event requirements of the role tested against one candidate
MaxReqs == 2
\* most entries of the candidate ABI a role is tested against
MaxEvents == 2

--------------------------------------------------------------------------
(* Strings. *)

\* ""
EmptyStr == <<>>
\* "a", "b": entry names used for the normalizer
StrA == <<97>>
StrB == <<98>>
\* "event", "function": entry types
StrEvent == <<101, 118, 101, 110, 116>>
StrFunction == <<102, 117, 110, 99, 116, 105, 111, 110>>
\* "Transfer", "TransferSingle", "Approval": event names
StrTransfer == <<84, 114, 97, 110, 115, 102, 101, 114>>
StrTransferSingle == StrTransfer \o <<83, 105, 110, 103, 108, 101>>
StrApproval == <<65, 112, 112, 114, 111, 118, 97, 108>>
\* "address", "uint256": input types
StrAddress == <<97, 100, 100, 114, 101, 115, 115>>
StrUint256 == <<117, 105, 110, 116, 50, 53, 54>>

\* Python's s < t on str: lexicographic by code point
StrLess(s, t) ==
    \E k \in 1..Len(t) :
        /\ \A j \in 1..(k - 1) : j <= Len(s) /\ s[j] = t[j]
        /\ (k > Len(s) \/ s[k] < t[k])

\* Python's s.startswith(p)
StartsWith(s, p) ==
    /\ Len(p) <= Len(s)
    /\ \A j \in 1..Len(p) : s[j] = p[j]

\* optional values: None and Some(v)
None == <<>>
Some(v) == <<v>>
IsNone(o) == o = <<>>

\* truthiness of an optional str: None and "" are falsy
Truthy(o) == o # <<>> /\ o[1] # <<>>

\* Python's `a or b`
Or(a, b) == IF Truthy(a) THEN a ELSE b

--------------------------------------------------------------------------
(* json.loads / json.dumps: the text of a JSON value is kept as the value  *)
(* in a wrapper, the two library calls being inverse on JSON values.       *)

json_dumps(v) == [json |-> v]
json_loads(s) == s.json

--------------------------------------------------------------------------
(* events.py: abi_from_str *)

\* the key with name and type exchanged
SortKeyTypeFirst(x) == Or(x.type, x.name)

\* lambda x: x.get('name') or x.get('type')     (events.py:7)
SortKey(x) == Or(x.name, x.type)

\* key(x) < key(y) as sorted evaluates it; only called on str keys
KeyLess(x, y) == StrLess(SortKey(x)[1], SortKey(y)[1])

\* insertion of x behind every element whose key is not greater (stability)
RECURSIVE InsertStable(_, _)
InsertStable(x, s) ==
    IF s = <<>> THEN <<x>>
    ELSE IF KeyLess(x, Head(s)) THEN <<x>> \o s
    ELSE <<Head(s)>> \o InsertStable(x, Tail(s))

\* a sort that puts an element in front of the elements of equal key
RECURSIVE InsertFront(_, _)
InsertFront(x, s) ==
    IF s = <<>> THEN <<x>>
    ELSE IF ~KeyLess(Head(s), x) THEN <<x>> \o s
    ELSE <<Head(s)>> \o InsertFront(x, Tail(s))

RECURSIVE SortedUnstable(_)
SortedUnstable(s) ==
    IF s = <<>> THEN <<>>
    ELSE InsertFront(s[Len(s)], SortedUnstable(SubSeq(s, 1, Len(s) - 1)))

\* the list left as it is (the result of sorted dropped)
NotSorted(s) == s

\* sorted(abi, key=...) on str keys: a stable ascending sort
RECURSIVE Sorted(_)
Sorted(s) ==
    IF s = <<>> THEN <<>>
    ELSE InsertStable(s[Len(s)], Sorted(SubSeq(s, 1, Len(s) - 1)))

\* sorted raises TypeError when it compares a None key: with two or more
\* elements every element takes part in a comparison, with fewer none does
SortRaises(s) == Len(s) >= 2 /\ \E k \in 1..Len(s) : IsNone(SortKey(s[k]))

\* abi_from_str(abi): the result, or the TypeError raised by sorted
abi_from_str(abi) ==
    LET parsed == json_loads(abi) IN
    IF SortRaises(parsed)
    THEN [raised |-> TRUE, value |-> <<>>]
    ELSE [raised |-> FALSE, value |-> Sorted(parsed)]

--------------------------------------------------------------------------
(* events.py: only_events, similar_event_exists *)

\* only_events(abi): the entries whose type is 'event', in their order
only_events(abi) == SelectSeq(abi, LAMBDA x : x.type = Some(StrEvent))

\* the input types joined in reverse order
RECURSIVE inputs_types_reversed(_)
inputs_types_reversed(inputs) ==
    IF inputs = <<>> THEN <<>>
    ELSE IF Len(inputs) = 1 THEN Head(inputs)
    ELSE inputs_types_reversed(Tail(inputs)) \o <<44>> \o Head(inputs)

\* inputs_types(inputs): ','.join of the types of the inputs, in their order
RECURSIVE inputs_types(_)
inputs_types(inputs) ==
    IF inputs = <<>> THEN <<>>
    ELSE IF Len(inputs) = 1 THEN Head(inputs)
    ELSE Head(inputs) \o <<44>> \o inputs_types(Tail(inputs))

\* x.get('name') + '(' + inputs_types(x['inputs']) + ')' for an entry with a name
Signature(x) == x.name[1] \o <<40>> \o inputs_types(x.inputs) \o <<41>>

\* events_from_abi(abi): the text of every event in the order of only_events(abi);
\* x.get('name') is None for an event without name, and None + '(' raises TypeError
events_from_abi(abi) ==
    LET events == only_events(abi) IN
    IF \E k \in 1..Len(events) : events[k].name = None
    THEN [raised |-> TRUE, value |-> <<>>]
    ELSE [raised |-> FALSE,
          value |-> [k \in 1..Len(events) |-> Signature(events[k])]]

\* the counting loops (events.py:26-31): the number of inputs of type t
RECURSIVE types_count(_, _)
types_count(inputs, t) ==
    IF inputs = <<>> THEN 0
    ELSE (IF Head(inputs) = t THEN 1 ELSE 0) + types_count(Tail(inputs), t)

\* the keys of i_types_count: the distinct input types of the requirement
TypesOf(inputs) == {inputs[k] : k \in 1..Len(inputs)}

\* for i in i_types_count: if i_types_count[i] > j_types_count[i]: break
CountsBreak(event, maybe_event) ==
    \E i \in TypesOf(event.inputs) :
        types_count(event.inputs, i) > types_count(maybe_event.inputs, i)

\* the name test with == in place of startswith
NameTestEqual(maybe_event, event) == maybe_event.name[1] = event.name[1]

\* maybe_event['name'].startswith(event['name'])
NameTest(maybe_event, event) == StartsWith(maybe_event.name[1], event.name[1])

\* the search taking the last event of the list that passes both tests
RECURSIVE similar_event_exists_last(_, _)
similar_event_exists_last(event, events_list) ==
    IF events_list = <<>> THEN None
    ELSE LET maybe_event == Head(events_list)
             later == similar_event_exists_last(event, Tail(events_list))
         IN  IF later # None THEN later
             ELSE IF NameTest(maybe_event, event) /\ ~CountsBreak(event, maybe_event)
             THEN maybe_event.name
             ELSE None

\* similar_event_exists(event, events_list): Some(name) of the first event of the
\* list that passes the name test and the count test, None when there is none
RECURSIVE similar_event_exists(_, _)
similar_event_exists(event, events_list) ==
    IF events_list = <<>> THEN None
    ELSE LET maybe_event == Head(events_list) IN
         IF ~NameTest(maybe_event, event)
         THEN similar_event_exists(event, Tail(events_list))
         ELSE IF CountsBreak(event, maybe_event)
         THEN similar_event_exists(event, Tail(events_list))
         ELSE maybe_event.name

--------------------------------------------------------------------------
(* extractor.py: the test of one candidate for one role (lines 104-109) *)

\* similar_events = [similar_event_exists(event, events) for event in contract['events']]
similar_events_of(contract, abi) ==
    [k \in 1..Len(contract.events) |->
        similar_event_exists(contract.events[k], only_events(abi))]

\* all(similar_events): every element is truthy (None and '' are not)
all(similar_events) ==
    \A k \in 1..Len(similar_events) : Truthy(similar_events[k])

--------------------------------------------------------------------------
(* dict: a sequence of [key, value] pairs in insertion order, keys distinct *)

DictKeys(d) == {d[i].key : i \in 1..Len(d)}
DictHas(d, k) == k \in DictKeys(d)
DictGet(d, k) == d[CHOOSE i \in 1..Len(d) : d[i].key = k].value

\* an assignment that appends an entry whether or not the key exists
DictAppend(d, k, v) == Append(d, [key |-> k, value |-> v])

\* d[k] = v: the value of an existing key is replaced where the key stands, a
\* new key is appended
DictSet(d, k, v) ==
    IF DictHas(d, k)
    THEN [i \in 1..Len(d) |-> IF d[i].key = k THEN [key |-> k, value |-> v] ELSE d[i]]
    ELSE Append(d, [key |-> k, value |-> v])

\* d.update(e)
RECURSIVE DictUpdate(_, _)
DictUpdate(d, e) ==
    IF e = <<>> THEN d
    ELSE DictUpdate(DictSet(d, Head(e).key, Head(e).value), Tail(e))

\* d.pop(k) for a key of d
DictPop(d, k) == SelectSeq(d, LAMBDA kv : kv.key # k)

--------------------------------------------------------------------------
(* Python values of the output document, tagged by their type *)

PyTrue == <<"bool", TRUE>>
PyFalse == <<"bool", FALSE>>
PyNone == <<"None">>
\* a str written without its text
PyStrLossy(s) == <<"str", "">>
PyStr(s) == <<"str", s>>
\* the str json.dumps returns
PyJson(v) == <<"json", json_dumps(v)>>

--------------------------------------------------------------------------
(* extractor.py: get_hash_from_dict *)

\* str(data) of a list of entries, as code points: each entry in braces, its name
\* and type in quotes when present, its input types in brackets
ReprOpt(o) == IF o = None THEN <<>> ELSE <<39>> \o o[1] \o <<39, 44>>

RECURSIVE ReprInputs(_)
ReprInputs(inputs) ==
    IF inputs = <<>> THEN <<>>
    ELSE <<39>> \o Head(inputs) \o <<39, 44>> \o ReprInputs(Tail(inputs))

ReprEntry(x) ==
    <<123>> \o ReprOpt(x.name) \o ReprOpt(x.type)
            \o <<91>> \o ReprInputs(x.inputs) \o <<93, 125>>

RECURSIVE str(_)
str(data) == IF data = <<>> THEN <<>> ELSE ReprEntry(Head(data)) \o str(Tail(data))

\* hash(data_str): a deterministic signed value of the text; Python's 64 bits
\* are narrowed to 16, the text being folded as a position-weighted sum
RECURSIVE WeightedSum(_, _, _)
WeightedSum(text, lo, hi) ==
    IF lo > hi THEN 0
    ELSE IF lo = hi THEN (lo * text[lo]) % (2 ^ 16)
    ELSE LET mid == (lo + hi) \div 2 IN
         (WeightedSum(text, lo, mid) + WeightedSum(text, mid + 1, hi)) % (2 ^ 16)

\* the key of str hashing of the process (PYTHONHASHSEED): 0 when hash
\* randomization is off, otherwise drawn when the interpreter starts
VARIABLE hash_seed

\* the keys a process may have
HashSeeds == {0, 1}

\* the hash of a text in a process whose key is seed
hash_keyed(seed, text) ==
    LET h == (WeightedSum(text, 1, Len(text)) + seed * (Len(text) + 1)) % (2 ^ 16) IN
    IF h >= 2 ^ 15 THEN h - 2 ^ 16 ELSE h

hash(text) == hash_keyed(hash_seed, text)

\* format(hash_value, 'x')
HexDigits == <<"0", "1", "2", "3", "4", "5", "6", "7",
               "8", "9", "a", "b", "c", "d", "e", "f">>

RECURSIVE HexOf(_)
HexOf(n) ==
    IF n < 16 THEN HexDigits[n + 1]
    ELSE HexOf(n \div 16) \o HexDigits[(n % 16) + 1]

format_x(v) == IF v < 0 THEN "-" \o HexOf(0 - v) ELSE HexOf(v)

get_hash_from_dict(data) == format_x(hash(str(data)))

--------------------------------------------------------------------------
(* extractor.py: get_config *)

TODO == "TODO: fill"

\* the role written without its address and test start block
RoleWithoutAddress == "resolver"

\* the config of a role without assignment
AbsentConfig(contract_name) ==
    << [key |-> contract_name, value |-> PyFalse],
       [key |-> contract_name \o "_name", value |-> PyNone],
       [key |-> contract_name \o "_address", value |-> PyNone],
       [key |-> contract_name \o "_start_block", value |-> PyNone],
       [key |-> contract_name \o "_address_test", value |-> PyNone],
       [key |-> contract_name \o "_start_block_test", value |-> PyNone],
       [key |-> contract_name \o "_abi", value |-> PyNone] >>

\* a get_config that drops the two keys of the address-less role in both branches
get_config_pops_always(contract_name, result) ==
    LET config ==
            IF DictHas(result, contract_name)
            THEN LET r == DictGet(result, contract_name) IN
                 << [key |-> contract_name, value |-> PyTrue],
                    [key |-> contract_name \o "_name", value |-> PyStr(r.default_name)],
                    [key |-> contract_name \o "_address", value |-> PyStr(r.address)],
                    [key |-> contract_name \o "_start_block", value |-> PyStr(TODO)],
                    [key |-> contract_name \o "_address_test", value |-> PyStr(TODO)],
                    [key |-> contract_name \o "_start_block_test", value |-> PyStr(TODO)],
                    [key |-> contract_name \o "_abi", value |-> PyJson(r.abi)] >>
            ELSE AbsentConfig(contract_name)
    IN  IF contract_name = RoleWithoutAddress
        THEN DictPop(DictPop(config, contract_name \o "_address"),
                     contract_name \o "_start_block_test")
        ELSE config

\* a get_config that fills the start block of an assigned role with a value it
\* computes (the address) instead of the marker
get_config_computed(contract_name, result) ==
    IF DictHas(result, contract_name)
    THEN LET r == DictGet(result, contract_name)
             config ==
                << [key |-> contract_name, value |-> PyTrue],
                   [key |-> contract_name \o "_name", value |-> PyStr(r.default_name)],
                   [key |-> contract_name \o "_address", value |-> PyStr(r.address)],
                   [key |-> contract_name \o "_start_block", value |-> PyStr(r.address)],
                   [key |-> contract_name \o "_address_test", value |-> PyStr(TODO)],
                   [key |-> contract_name \o "_start_block_test", value |-> PyStr(TODO)],
                   [key |-> contract_name \o "_abi", value |-> PyJson(r.abi)] >>
         IN  IF contract_name = RoleWithoutAddress
             THEN DictPop(DictPop(config, contract_name \o "_address"),
                          contract_name \o "_start_block_test")
             ELSE config
    ELSE AbsentConfig(contract_name)

get_config(contract_name, result) ==
    IF DictHas(result, contract_name)
    THEN LET r == DictGet(result, contract_name)
             config ==
                << [key |-> contract_name, value |-> PyTrue],
                   [key |-> contract_name \o "_name", value |-> PyStr(r.default_name)],
                   [key |-> contract_name \o "_address", value |-> PyStr(r.address)],
                   [key |-> contract_name \o "_start_block", value |-> PyStr(TODO)],
                   [key |-> contract_name \o "_address_test", value |-> PyStr(TODO)],
                   [key |-> contract_name \o "_start_block_test", value |-> PyStr(TODO)],
                   [key |-> contract_name \o "_abi", value |-> PyJson(r.abi)] >>
         IN  IF contract_name = RoleWithoutAddress
             THEN DictPop(DictPop(config, contract_name \o "_address"),
                          contract_name \o "_start_block_test")
             ELSE config
    ELSE AbsentConfig(contract_name)

--------------------------------------------------------------------------
(* State. *)

VARIABLES
    \* a call of abi_from_str and of abi_from_str on its dumped result
    n_raw,          \* the argument: the text of a JSON array of entries
    n_out,          \* None until called, then Some(result of the call)
    n_out2,         \* None until called on json.dumps(n_out), then Some(result)
    \* the test of one candidate ABI for one role
    m_contract,     \* the role: [default_name, events]
    m_abi,          \* the candidate ABI
    m_similar,      \* None, then Some(similar_events)
    m_accept,       \* None, then Some(all(similar_events))
    \* a run of the extractor's main: its inputs and output
    fs_input_abis,  \* the pool file: None when missing, else Some(dict address -> ABI)
    argv_extra,     \* args.extra: the texts of the extra ABIs
    fs_config,      \* the role configuration file: dict role -> [default_name, events]
    fs_output,      \* the output file: None when not written, else Some(document)
    \* a run of the extractor's main: its locals
    pc,             \* the statement main is at
    abis,           \* the candidate pool
    xi,             \* the index in args.extra of the next extra ABI
    config,         \* the role configuration
    result,         \* the assignment: dict role -> [abi, address, default_name]
    used_addresses, \* the pool keys assigned so far
    ci,             \* the index in config of the role of the outer loop
    ai,             \* the index in abis of the candidate of the inner loop
    evals,          \* the (role, pool key) pairs tested so far, in order
    context,        \* the synthesized config
    raised,         \* the exception that ended the run, "" when none
    \* calls of events_from_abi
    e_raw,          \* the text of a JSON array of entries
    e_events,       \* None until called on the parsed text, then Some(result)
    e_events_norm,  \* None until called on abi_from_str(text), then Some(result)
    \* a run of the deployer's main
    d_in,           \* its inputs: [known, package, prod, network, files]
    d_pc,           \* the statement the run is at
    d_files,        \* the contents of the src/*.ts files, in the order of glob
    d_fi,           \* process_files: the index of the next file
    d_local,        \* process_files: its original_contents, dict index -> content
    d_saved,        \* deploy_subgraph: its original_contents
    d_cmds,         \* the shell commands issued so far, in order
    d_answer,       \* None until the operator is asked, then Some(answer)
    d_pending,      \* the exception passing through the finally clause, "" when none
    d_status,       \* None while the process runs, then Some(exit status)
    \* a run of prepare_dataset's main
    p_dataset,      \* organized_contracts: dict bytecode hash -> directory listing
    p_index,        \* the lines of the index file: [address, hash]
    p_pc,           \* the statement the run is at
    p_li,           \* the index of the next line of the index file
    p_hashes,       \* bytecode_hashes: the hashes not yet written
    p_out,          \* the writes to the results directory so far, in order
    p_raised,       \* the exception that ended the run, "" when none
    \* a call of calculate_verification_method and construct_verification_data
    c_files,        \* os.listdir(directory)
    c_method,       \* None, then Some(verification method)
    c_read,         \* None, then Some([files opened, raised])
    \* a run of get_abi_from_etherscan's main
    g_in,           \* its inputs: [addresses, source, abi] (the API's answers)
    g_pc,           \* the statement the run is at
    g_i,            \* the index in addresses of the next address
    g_result,       \* result: dict address -> ABI
    g_requests,     \* the requests made so far, in order
    g_output,       \* the output file: None when not written, else Some(dict)
    g_raised        \* the exception that ended the run, "" when none

n_vars == <<n_raw, n_out, n_out2>>
m_vars == <<m_contract, m_abi, m_similar, m_accept>>
x_inputs == <<fs_input_abis, argv_extra, fs_config, hash_seed>>
x_vars == <<x_inputs, fs_output, pc, abis, xi, config, result, used_addresses,
            ci, ai, evals, context, raised>>
e_vars == <<e_raw, e_events, e_events_norm>>
d_vars == <<d_in, d_pc, d_files, d_fi, d_local, d_saved, d_cmds, d_answer,
            d_pending, d_status>>
p_vars == <<p_dataset, p_index, p_pc, p_li, p_hashes, p_out, p_raised,
            c_files, c_method, c_read>>
g_vars == <<g_in, g_pc, g_i, g_result, g_requests, g_output, g_raised>>
vars == <<n_vars, m_vars, x_vars, e_vars, d_vars, p_vars, g_vars>>

\* a part of the state that a specification does not use
Idle == <<"idle">>
n_idle == n_raw = Idle /\ n_out = Idle /\ n_out2 = Idle
m_idle == m_contract = Idle /\ m_abi = Idle /\ m_similar = Idle /\ m_accept = Idle
x_idle ==
    /\ fs_input_abis = Idle /\ argv_extra = Idle /\ fs_config = Idle
    /\ hash_seed = 0
    /\ fs_output = Idle /\ pc = "idle" /\ abis = Idle /\ xi = 0 /\ config = Idle
    /\ result = Idle /\ used_addresses = {} /\ ci = 0 /\ ai = 0 /\ evals = Idle
    /\ context = Idle /\ raised = ""
e_idle == e_raw = Idle /\ e_events = Idle /\ e_events_norm = Idle
d_idle ==
    /\ d_in = Idle /\ d_pc = "idle" /\ d_files = Idle /\ d_fi = 0 /\ d_local = Idle
    /\ d_saved = Idle /\ d_cmds = Idle /\ d_answer = Idle /\ d_pending = ""
    /\ d_status = Idle
c_idle == c_files = Idle /\ c_method = Idle /\ c_read = Idle
r_idle ==
    /\ p_dataset = Idle /\ p_index = Idle /\ p_pc = "idle" /\ p_li = 0
    /\ p_hashes = Idle /\ p_out = Idle /\ p_raised = ""
p_idle == r_idle /\ c_idle
g_idle ==
    /\ g_in = Idle /\ g_pc = "idle" /\ g_i = 0 /\ g_result = Idle
    /\ g_requests = Idle /\ g_output = Idle /\ g_raised = ""

--------------------------------------------------------------------------
(* Inputs of the normalizer: entries with and without name and type, with  *)
(* empty and non-empty names, and several entries of the same name.        *)

EntryNames == {None, Some(EmptyStr), Some(StrA), Some(StrB)}
EntryTypes == {None, Some(StrEvent), Some(StrFunction)}
Entries == [name : EntryNames, type : EntryTypes, inputs : {<<>>}]

SeqsUpTo(S, n) == UNION {[1..k -> S] : k \in 0..n}

RawAbis == {json_dumps(a) : a \in SeqsUpTo(Entries, MaxAbiLen)}

--------------------------------------------------------------------------
(* Specification of the normalizer alone. *)

InitNormalize ==
    /\ n_raw \in RawAbis
    /\ n_out = None
    /\ n_out2 = None
    /\ m_idle
    /\ x_idle
    /\ e_idle
    /\ d_idle
    /\ p_idle
    /\ g_idle

\* abi = abi_from_str(text)
Normalize ==
    /\ n_out = None
    /\ n_out' = Some(abi_from_str(n_raw))
    /\ UNCHANGED <<n_raw, n_out2, m_vars, x_vars, e_vars,
                   d_vars, p_vars, g_vars>>

\* abi_from_str(json.dumps(abi)) on the result of a call that returned
Renormalize ==
    /\ n_out # None
    /\ ~n_out[1].raised
    /\ n_out2 = None
    /\ n_out2' = Some(abi_from_str(json_dumps(n_out[1].value)))
    /\ UNCHANGED <<n_raw, n_out, m_vars, x_vars, e_vars,
                   d_vars, p_vars, g_vars>>

NextNormalize == Normalize \/ Renormalize

SpecNormalize == InitNormalize /\ [][NextNormalize]_vars

--------------------------------------------------------------------------
(* Inputs of the matcher: the events of section 8 of the specification     *)
(* (Transfer, TransferSingle), events and requirements named "", an event  *)
(* of another name, and an entry that is no event.                         *)

\* {"name": name, "inputs": [{"type": t}, ...]} of a role configuration
Requirement(name, inputs) == [name |-> Some(name), inputs |-> inputs]

\* {"type": "event", "name": name, "inputs": [...]} of an ABI
EventEntry(name, inputs) ==
    [name |-> Some(name), type |-> Some(StrEvent), inputs |-> inputs]

\* {"type": "function", "name": name, "inputs": [...]} of an ABI
FunctionEntry(name, inputs) ==
    [name |-> Some(name), type |-> Some(StrFunction), inputs |-> inputs]

Requirements ==
    { Requirement(StrTransfer, <<StrAddress, StrAddress, StrUint256>>),
      Requirement(StrTransfer, <<>>),
      Requirement(StrTransferSingle, <<StrUint256, StrUint256>>),
      Requirement(StrApproval, <<StrAddress, StrAddress, StrUint256>>),
      Requirement(EmptyStr, <<>>),
      Requirement(EmptyStr, <<StrAddress, StrAddress>>) }

MatchEntries ==
    { EventEntry(StrTransfer, <<StrAddress, StrUint256>>),
      EventEntry(StrTransfer, <<StrUint256, StrAddress, StrAddress>>),
      EventEntry(StrTransferSingle,
                 <<StrAddress, StrAddress, StrUint256, StrUint256>>),
      EventEntry(StrApproval, <<StrAddress, StrAddress, StrUint256>>),
      EventEntry(EmptyStr, <<>>),
      EventEntry(EmptyStr, <<StrAddress, StrAddress, StrUint256>>),
      FunctionEntry(StrTransfer, <<StrAddress, StrAddress, StrUint256>>) }

\* "default_name" of a role
DefaultName == "Name"

--------------------------------------------------------------------------
(* Specification of the test of one candidate for one role.                *)

InitMatch ==
    /\ \E events \in SeqsUpTo(Requirements, MaxReqs) :
          m_contract = [default_name |-> DefaultName, events |-> events]
    /\ m_abi \in SeqsUpTo(MatchEntries, MaxEvents)
    /\ m_similar = None
    /\ m_accept = None
    /\ n_idle
    /\ x_idle
    /\ e_idle
    /\ d_idle
    /\ p_idle
    /\ g_idle

\* events = only_events(abi); similar_events = [...]      (extractor.py:104-108)
MatchEvents ==
    /\ m_similar = None
    /\ m_similar' = Some(similar_events_of(m_contract, m_abi))
    /\ UNCHANGED <<m_contract, m_abi, m_accept, n_vars, x_vars, e_vars,
                   d_vars, p_vars, g_vars>>

\* if all(similar_events):                                 (extractor.py:109)
MatchAll ==
    /\ m_similar # None
    /\ m_accept = None
    /\ m_accept' = Some(all(m_similar[1]))
    /\ UNCHANGED <<m_contract, m_abi, m_similar, n_vars, x_vars, e_vars,
                   d_vars, p_vars, g_vars>>

NextMatch == MatchEvents \/ MatchAll

SpecMatch == InitMatch /\ [][NextMatch]_vars

--------------------------------------------------------------------------
(* Inputs of a run of the extractor. *)

TransferInputs == <<StrAddress, StrAddress, StrUint256>>

\* ABIs of the pool file
\* Approval and Transfer events: has what a Transfer role and what a
\* Transfer-and-Approval role require
AbiTransferApproval ==
    << EventEntry(StrApproval, TransferInputs),
       EventEntry(StrTransfer, <<StrUint256, StrAddress, StrAddress>>) >>
\* a TransferSingle event and a Transfer function: has what a Transfer role requires
AbiTransferSingle ==
    << FunctionEntry(StrTransfer, TransferInputs),
       EventEntry(StrTransferSingle,
                  <<StrAddress, StrAddress, StrUint256, StrUint256>>) >>
\* an event named ""
AbiUnnamedEvent == << EventEntry(EmptyStr, <<StrAddress>>) >>

PoolAbis == {AbiTransferApproval, AbiTransferSingle, AbiUnnamedEvent}

\* the address of the k-th entry of the pool file
Address(k) == "0x" \o ToString(k)

\* the pool files: missing, or up to MaxPool addresses, each with an ABI
PoolFiles ==
    {None} \cup
    { Some([k \in 1..Len(a) |-> [key |-> Address(k), value |-> a[k]]]) :
        a \in SeqsUpTo(PoolAbis, MaxPool) }

\* extra ABIs of the command line: the entries of AbiTransferSingle in another
\* order, and an ABI with an entry that has neither name nor type
ExtraTransferSingle ==
    json_dumps(<< AbiTransferSingle[2], AbiTransferSingle[1] >>)
ExtraMalformed ==
    json_dumps(<< [name |-> None, type |-> None, inputs |-> <<>>],
                  EventEntry(StrTransfer, TransferInputs) >>)

ExtraAbis == {ExtraTransferSingle, ExtraMalformed}

\* the events of a role
RoleEvents ==
    { << Requirement(StrTransfer, TransferInputs) >>,
      << Requirement(StrTransfer, TransferInputs),
         Requirement(StrApproval, TransferInputs) >>,
      << Requirement(EmptyStr, <<>>) >> }

RoleNames == {"base", "resolver", "registry"}

\* sequences of up to n different elements of S
DistinctSeqs(S, n) ==
    {q \in SeqsUpTo(S, n) : \A i, j \in 1..Len(q) : i # j => q[i] # q[j]}

\* the role configurations: up to MaxRoles roles of different names
ConfigFiles ==
    UNION { { [k \in 1..Len(names) |->
                 [key |-> names[k],
                  value |-> [default_name |-> DefaultName, events |-> ev[k]]]] :
              ev \in [1..Len(names) -> RoleEvents] } :
            names \in DistinctSeqs(RoleNames, MaxRoles) }

--------------------------------------------------------------------------
(* Specification of a run of the extractor: main (extractor.py:82-139).    *)

Init ==
    /\ fs_input_abis \in PoolFiles
    /\ argv_extra \in SeqsUpTo(ExtraAbis, MaxExtra)
    /\ fs_config \in ConfigFiles
    /\ hash_seed = 0
    /\ fs_output = None
    /\ pc = "load_abis"
    /\ abis = <<>>
    /\ xi = 1
    /\ config = <<>>
    /\ result = <<>>
    /\ used_addresses = {}
    /\ ci = 1
    /\ ai = 1
    /\ evals = <<>>
    /\ context = <<>>
    /\ raised = ""
    /\ n_idle
    /\ m_idle
    /\ e_idle
    /\ d_idle
    /\ p_idle
    /\ g_idle

\* lines 84-88: the pool file is loaded, a missing file gives the empty pool
LoadAbis ==
    /\ pc = "load_abis"
    /\ abis' = IF fs_input_abis # None THEN fs_input_abis[1] ELSE <<>>
    /\ pc' = "extras"
    /\ UNCHANGED <<x_inputs, fs_output, xi, config, result, used_addresses,
                   ci, ai, evals, context, raised, n_vars, m_vars, e_vars,
                   d_vars, p_vars, g_vars>>

\* lines 90-93, one extra ABI: normalized, hashed, stored under its hash
MergeExtra ==
    /\ pc = "extras"
    /\ xi <= Len(argv_extra)
    /\ LET extra_abi == abi_from_str(argv_extra[xi]) IN
       /\ ~extra_abi.raised
       /\ abis' = DictSet(abis, get_hash_from_dict(extra_abi.value), extra_abi.value)
    /\ xi' = xi + 1
    /\ UNCHANGED <<x_inputs, fs_output, pc, config, result, used_addresses,
                   ci, ai, evals, context, raised, n_vars, m_vars, e_vars,
                   d_vars, p_vars, g_vars>>

\* line 91 raising: sorted compared a None key, main ends with the TypeError
MergeExtraRaises ==
    /\ pc = "extras"
    /\ xi <= Len(argv_extra)
    /\ abi_from_str(argv_extra[xi]).raised
    /\ pc' = "raised"
    /\ raised' = "TypeError"
    /\ UNCHANGED <<x_inputs, fs_output, abis, xi, config, result, used_addresses,
                   ci, ai, evals, context, n_vars, m_vars, e_vars,
                   d_vars, p_vars, g_vars>>

\* lines 95-99: the role configuration is loaded, the assignment starts empty
LoadConfig ==
    /\ pc = "extras"
    /\ xi > Len(argv_extra)
    /\ config' = fs_config
    /\ result' = <<>>
    /\ used_addresses' = {}
    /\ ci' = 1
    /\ ai' = 1
    /\ pc' = "assign"
    /\ UNCHANGED <<x_inputs, fs_output, abis, xi, evals, context, raised,
                   n_vars, m_vars, e_vars,
                   d_vars, p_vars, g_vars>>

\* the loops are at role ci and candidate ai
AtCandidate ==
    /\ pc = "assign"
    /\ ci <= Len(config)
    /\ ai <= Len(abis)

\* lines 104-109: the candidate passes the test of the role
Accepts(contract, abi) == all(similar_events_of(contract, abi))

\* a candidate passed over whether its key is used or not
SkipAny ==
    /\ AtCandidate
    /\ ai' = ai + 1
    /\ UNCHANGED <<x_inputs, fs_output, pc, abis, xi, config, result,
                   used_addresses, ci, evals, context, raised, n_vars, m_vars, e_vars,
                   d_vars, p_vars, g_vars>>

\* lines 102-103: a candidate whose key is used is passed over
SkipUsed ==
    /\ AtCandidate
    /\ abis[ai].key \in used_addresses
    /\ ai' = ai + 1
    /\ UNCHANGED <<x_inputs, fs_output, pc, abis, xi, config, result,
                   used_addresses, ci, evals, context, raised, n_vars, m_vars, e_vars,
                   d_vars, p_vars, g_vars>>

\* lines 104-110 with the test failing: on to the next candidate
Reject ==
    /\ AtCandidate
    /\ abis[ai].key \notin used_addresses
    /\ ~(Accepts(config[ci].value, abis[ai].value) /\ ~DictHas(result, config[ci].key))
    /\ evals' = Append(evals, <<config[ci].key, abis[ai].key>>)
    /\ ai' = ai + 1
    /\ UNCHANGED <<x_inputs, fs_output, pc, abis, xi, config, result,
                   used_addresses, ci, context, raised, n_vars, m_vars, e_vars,
                   d_vars, p_vars, g_vars>>

\* the key left out of the used keys
UsedWithout(used, address) == used

\* line 112: used_addresses.add(address)
UsedWith(used, address) == used \cup {address}

\* the assignment without the break: the inner loop goes on to the next candidate
AssignWithoutBreak ==
    /\ AtCandidate
    /\ abis[ai].key \notin used_addresses
    /\ Accepts(config[ci].value, abis[ai].value)
    /\ ~DictHas(result, config[ci].key)
    /\ evals' = Append(evals, <<config[ci].key, abis[ai].key>>)
    /\ result' = DictSet(result, config[ci].key,
                         [abi |-> abis[ai].value, address |-> abis[ai].key,
                          default_name |-> config[ci].value.default_name])
    /\ used_addresses' = UsedWith(used_addresses, abis[ai].key)
    /\ ai' = ai + 1
    /\ UNCHANGED <<x_inputs, fs_output, pc, abis, xi, config, ci, context, raised,
                   n_vars, m_vars, e_vars,
                   d_vars, p_vars, g_vars>>

\* lines 104-113 with the test passing: the candidate is assigned to the role, its
\* key is used, and the inner loop is left
Assign ==
    /\ AtCandidate
    /\ abis[ai].key \notin used_addresses
    /\ Accepts(config[ci].value, abis[ai].value)
    /\ ~DictHas(result, config[ci].key)
    /\ evals' = Append(evals, <<config[ci].key, abis[ai].key>>)
    /\ result' = DictSet(result, config[ci].key,
                         [abi |-> abis[ai].value, address |-> abis[ai].key,
                          default_name |-> config[ci].value.default_name])
    /\ used_addresses' = UsedWith(used_addresses, abis[ai].key)
    /\ ci' = ci + 1
    /\ ai' = 1
    /\ UNCHANGED <<x_inputs, fs_output, pc, abis, xi, config, context, raised,
                   n_vars, m_vars, e_vars,
                   d_vars, p_vars, g_vars>>

\* the role left before its candidates are exhausted
NextRoleEarly ==
    /\ pc = "assign"
    /\ ci <= Len(config)
    /\ ci' = ci + 1
    /\ ai' = 1
    /\ UNCHANGED <<x_inputs, fs_output, pc, abis, xi, config, result,
                   used_addresses, evals, context, raised, n_vars, m_vars, e_vars,
                   d_vars, p_vars, g_vars>>

\* line 101 exhausted: the role stays without assignment, on to the next role
NextRole ==
    /\ pc = "assign"
    /\ ci <= Len(config)
    /\ ai > Len(abis)
    /\ ci' = ci + 1
    /\ ai' = 1
    /\ UNCHANGED <<x_inputs, fs_output, pc, abis, xi, config, result,
                   used_addresses, evals, context, raised, n_vars, m_vars, e_vars,
                   d_vars, p_vars, g_vars>>

\* lines 118-123
InitialContext ==
    << [key |-> "project_name", value |-> PyStr(TODO)],
       [key |-> "short_name", value |-> PyStr(TODO)],
       [key |-> "network", value |-> PyStr(TODO)],
       [key |-> "network_test", value |-> PyStr(TODO)] >>

\* lines 114-117 and 126-127: context.update(get_config(name, result)) for the
\* roles from index k on, in the order of config
RECURSIVE UpdateWithConfigs(_, _, _, _)
UpdateWithConfigs(ctx, cfg, res, k) ==
    IF k > Len(cfg) THEN ctx
    ELSE UpdateWithConfigs(DictUpdate(ctx, get_config(cfg[k].key, res)), cfg, res, k + 1)

\* lines 114-127: the config of every role is put into the context
Synthesize ==
    /\ pc = "assign"
    /\ ci > Len(config)
    /\ context' = UpdateWithConfigs(InitialContext, config, result, 1)
    /\ pc' = "base"
    /\ UNCHANGED <<x_inputs, fs_output, abis, xi, config, result, used_addresses,
                   ci, ai, evals, raised, n_vars, m_vars, e_vars,
                   d_vars, p_vars, g_vars>>

\* the two base keys added whatever context['base'] is
BaseKeysAlways ==
    /\ pc = "base"
    /\ DictHas(context, "base")
    /\ context' = DictUpdate(context,
                             << [key |-> "base_tld", value |-> PyStr(TODO)],
                                [key |-> "base_tld_hash", value |-> PyStr(TODO)] >>)
    /\ pc' = "write"
    /\ UNCHANGED <<x_inputs, fs_output, abis, xi, config, result, used_addresses,
                   ci, ai, evals, raised, n_vars, m_vars, e_vars,
                   d_vars, p_vars, g_vars>>

\* lines 129-133: if context['base']: the two base keys are added
BaseKeys ==
    /\ pc = "base"
    /\ DictHas(context, "base")
    /\ context' = IF DictGet(context, "base") = PyTrue
                  THEN DictUpdate(context,
                                  << [key |-> "base_tld", value |-> PyStr(TODO)],
                                     [key |-> "base_tld_hash", value |-> PyStr(TODO)] >>)
                  ELSE context
    /\ pc' = "write"
    /\ UNCHANGED <<x_inputs, fs_output, abis, xi, config, result, used_addresses,
                   ci, ai, evals, raised, n_vars, m_vars, e_vars,
                   d_vars, p_vars, g_vars>>

\* line 129 raising: the context has no key 'base', main ends with the KeyError
BaseKeyError ==
    /\ pc = "base"
    /\ ~DictHas(context, "base")
    /\ pc' = "raised"
    /\ raised' = "KeyError"
    /\ UNCHANGED <<x_inputs, fs_output, abis, xi, config, result, used_addresses,
                   ci, ai, evals, context, n_vars, m_vars, e_vars,
                   d_vars, p_vars, g_vars>>

\* the document written, and the merged pool written back to the pool file
WriteOutputAndPool ==
    /\ pc = "write"
    /\ fs_output' = Some([default_context |-> context])
    /\ fs_input_abis' = Some(abis)
    /\ pc' = "done"
    /\ UNCHANGED <<argv_extra, fs_config, hash_seed, abis, xi, config, result,
                   used_addresses, ci, ai, evals, context, raised, n_vars, m_vars,
                   e_vars, d_vars, p_vars, g_vars>>

\* lines 134-139: the document is written
WriteOutput ==
    /\ pc = "write"
    /\ fs_output' = Some([default_context |-> context])
    /\ pc' = "done"
    /\ UNCHANGED <<x_inputs, abis, xi, config, result, used_addresses,
                   ci, ai, evals, context, raised, n_vars, m_vars, e_vars,
                   d_vars, p_vars, g_vars>>

Next ==
    \/ LoadAbis
    \/ MergeExtra
    \/ MergeExtraRaises
    \/ LoadConfig
    \/ SkipUsed
    \/ Reject
    \/ Assign
    \/ NextRole
    \/ Synthesize
    \/ BaseKeys
    \/ BaseKeyError
    \/ WriteOutput

Spec == Init /\ [][Next]_vars

\* lines 100-113: a step of the loops over the roles and the candidates
LoopStep == SkipUsed \/ Reject \/ Assign \/ NextRole

\* main is one sequential process: the loops, once entered, run on
FairSpec == Spec /\ WF_vars(LoopStep)

--------------------------------------------------------------------------
(* Runs of the extractor on malformed and on repeated inputs: the same     *)
(* main, started on pools that hold a malformed ABI, on up to MaxMerged    *)
(* extra ABIs among which some have the same normalized content, and on an *)
(* output file that may exist before the run.                              *)

\* the number of extra ABIs of these runs
MaxMerged == 3

\* an entry that lacks both name and type
MalformedEntry == [name |-> None, type |-> None, inputs |-> <<>>]

\* an ABI of the pool file with a malformed entry
AbiMalformed == << MalformedEntry, EventEntry(StrTransfer, TransferInputs) >>

MergePoolFiles ==
    { None,
      Some(<< [key |-> Address(1), value |-> AbiTransferApproval] >>),
      Some(<< [key |-> Address(1), value |-> AbiMalformed] >>) }

\* AbiTransferSingle as a text in normalized order (ExtraTransferSingle has the
\* same entries in another order)
ExtraTransferSingleSorted == json_dumps(AbiTransferSingle)
\* an extra ABI of other content
ExtraTransferApproval == json_dumps(AbiTransferApproval)
\* an extra ABI that is one malformed entry
ExtraMalformedSingle == json_dumps(<< MalformedEntry >>)

MergeExtraAbis ==
    { ExtraTransferSingle, ExtraTransferSingleSorted, ExtraTransferApproval,
      ExtraMalformed, ExtraMalformedSingle }

\* a role of a role configuration
Role(name, events) ==
    [key |-> name, value |-> [default_name |-> DefaultName, events |-> events]]

RoleTransfer(name) == Role(name, << Requirement(StrTransfer, TransferInputs) >>)
RoleTransferApproval(name) ==
    Role(name, << Requirement(StrTransfer, TransferInputs),
                  Requirement(StrApproval, TransferInputs) >>)

MergeConfigFiles ==
    { << RoleTransfer("registry") >>,
      << RoleTransferApproval("registry"), RoleTransfer("base") >> }

\* a document left in the output file by an earlier run
OldDocument == [default_context |-> <<>>]

InitMerge ==
    /\ fs_input_abis \in MergePoolFiles
    /\ argv_extra \in SeqsUpTo(MergeExtraAbis, MaxMerged)
    /\ fs_config \in MergeConfigFiles
    /\ hash_seed \in HashSeeds
    /\ fs_output \in {None, Some(OldDocument)}
    /\ pc = "load_abis"
    /\ abis = <<>>
    /\ xi = 1
    /\ config = <<>>
    /\ result = <<>>
    /\ used_addresses = {}
    /\ ci = 1
    /\ ai = 1
    /\ evals = <<>>
    /\ context = <<>>
    /\ raised = ""
    /\ n_idle
    /\ m_idle
    /\ e_idle
    /\ d_idle
    /\ p_idle
    /\ g_idle

SpecMerge == InitMerge /\ [][Next]_vars

\* the same runs, the loops running on once entered
FairSpecMerge == SpecMerge /\ WF_vars(LoopStep)

\* lines 90-93 as a function: the pool after the extra ABIs of the list, each
\* normalized, hashed and stored under its hash, were merged into pool in order
RECURSIVE MergedPool(_, _)
MergedPool(pool, extras) ==
    IF extras = <<>> THEN pool
    ELSE LET extra_abi == abi_from_str(Head(extras)).value IN
         MergedPool(DictSet(pool, get_hash_from_dict(extra_abi), extra_abi),
                    Tail(extras))

\* lines 98-113 as a function: the assignment the loops build for the roles from
\* index k on, res being the assignment of the roles before k
RECURSIVE AssignRoles(_, _, _, _)
AssignRoles(pool, cfg, k, res) ==
    IF k > Len(cfg) THEN res
    ELSE LET used == {res[i].value.address : i \in 1..Len(res)}
             taking == {i \in 1..Len(pool) :
                          /\ pool[i].key \notin used
                          /\ Accepts(cfg[k].value, pool[i].value)
                          /\ ~DictHas(res, cfg[k].key)}
         IN  IF taking = {} THEN AssignRoles(pool, cfg, k + 1, res)
             ELSE LET i == CHOOSE i \in taking : \A j \in taking : i <= j IN
                  AssignRoles(pool, cfg, k + 1,
                              DictSet(res, cfg[k].key,
                                      [abi |-> pool[i].value, address |-> pool[i].key,
                                       default_name |-> cfg[k].value.default_name]))

\* lines 114-133 as a function: the context built from the role configuration
\* and the assignment, when line 129 does not raise
ContextOf(cfg, res) ==
    LET ctx == UpdateWithConfigs(InitialContext, cfg, res, 1) IN
    IF DictHas(ctx, "base") /\ DictGet(ctx, "base") = PyTrue
    THEN DictUpdate(ctx, << [key |-> "base_tld", value |-> PyStr(TODO)],
                            [key |-> "base_tld_hash", value |-> PyStr(TODO)] >>)
    ELSE ctx

--------------------------------------------------------------------------
(* Specification of events_from_abi, called on an ABI as given and on its  *)
(* normalized form. The entries are events whose inputs differ in order    *)
(* and number, an event named "", an event without name, a function and a  *)
(* constructor (which has no name).                                        *)

\* the number of entries of an ABI
MaxSigLen == 3

StrConstructor == <<99, 111, 110, 115, 116, 114, 117, 99, 116, 111, 114>>

\* {"type": "constructor", "inputs": [...]}
ConstructorEntry(inputs) ==
    [name |-> None, type |-> Some(StrConstructor), inputs |-> inputs]

SignatureEntries ==
    { EventEntry(StrTransfer, <<StrAddress, StrUint256>>),
      EventEntry(StrTransfer, <<StrUint256, StrAddress>>),
      EventEntry(StrApproval, <<StrAddress, StrAddress, StrUint256>>),
      EventEntry(EmptyStr, <<>>),
      [name |-> None, type |-> Some(StrEvent), inputs |-> <<StrAddress>>],
      FunctionEntry(StrTransfer, <<StrUint256, StrAddress>>),
      ConstructorEntry(<<StrAddress>>) }

RawSignatureAbis == {json_dumps(a) : a \in SeqsUpTo(SignatureEntries, MaxSigLen)}

InitSignatures ==
    /\ e_raw \in RawSignatureAbis
    /\ e_events = None
    /\ e_events_norm = None
    /\ n_idle
    /\ m_idle
    /\ x_idle
    /\ d_idle
    /\ p_idle
    /\ g_idle

\* events_from_abi(json.loads(text))
Signatures ==
    /\ e_events = None
    /\ e_events' = Some(events_from_abi(json_loads(e_raw)))
    /\ UNCHANGED <<e_raw, e_events_norm, n_vars, m_vars, x_vars,
                   d_vars, p_vars, g_vars>>

\* events_from_abi(abi_from_str(text))
SignaturesOfNormalized ==
    /\ e_events_norm = None
    /\ ~abi_from_str(e_raw).raised
    /\ e_events_norm' = Some(events_from_abi(abi_from_str(e_raw).value))
    /\ UNCHANGED <<e_raw, e_events, n_vars, m_vars, x_vars,
                   d_vars, p_vars, g_vars>>

NextSignatures == Signatures \/ SignaturesOfNormalized

SpecSignatures == InitSignatures /\ [][NextSignatures]_vars

--------------------------------------------------------------------------
(* Claims about the normalizer (checked under SpecNormalize). *)

\* the parsed argument of the call
n_abi == json_loads(n_raw)

\* the call has returned (it did not raise)
n_returned == n_out # None /\ ~n_out[1].raised

\* a <= b on optional str: both are str, and a is not greater than b
KeyLeq(a, b) == a # None /\ b # None /\ ~StrLess(b[1], a[1])

\* v is s reordered by the bijection p, ascending by key, and entries of equal
\* key keep the order they have in s
StableSortedBy(v, s, p, key(_)) ==
    /\ \A i \in 1..Len(s) : v[i] = s[p[i]]
    /\ \A i, j \in 1..Len(s) :
          i < j => /\ KeyLeq(key(v[i]), key(v[j]))
                   /\ (key(v[i]) = key(v[j]) => p[i] < p[j])

IsStableSortOf(v, s, key(_)) ==
    /\ Len(v) = Len(s)
    /\ \E p \in Permutations(1..Len(s)) : StableSortedBy(v, s, p, key)

\* the key as C7 words it: the name when the key 'name' is present, else the type
KeyNamePresent(x) == IF x.name # None THEN x.name ELSE x.type

\* the key with "present" read as "present and not empty"
KeyNameNonEmpty(x) ==
    IF x.name # None /\ x.name[1] # EmptyStr THEN x.name ELSE x.type

\* C7 as stated: abi_from_str returns the entries of its argument, nothing added,
\* removed or changed, ascending by name when the name is present and otherwise by
\* type, entries of equal key in their original relative order.
C7_SortedByPresentName ==
    n_returned => IsStableSortOf(n_out[1].value, n_abi, KeyNamePresent)

\* C7 amended: the same, the key being the name when it is present and not the
\* empty string, and the type otherwise (an entry named "" is ordered by its type).
C7_SortedByNonEmptyName ==
    n_returned => IsStableSortOf(n_out[1].value, n_abi, KeyNameNonEmpty)

\* C7 witness: a returned call on three entries, one keyed by its name, one by its
\* type, two sharing a key, which the sort had to reorder.
C7_Witness ==
    /\ n_returned
    /\ Len(n_abi) = 3
    /\ n_out[1].value # n_abi
    /\ \E i, j \in 1..3 : /\ i # j
                          /\ n_abi[i] # n_abi[j]
                          /\ SortKey(n_abi[i]) = SortKey(n_abi[j])
    /\ \E i, j \in 1..3 : n_abi[i].name = None /\ Truthy(n_abi[j].name)

\* C8: normalization is idempotent: normalizing the normalized form of an ABI
\* succeeds and returns exactly the normalized form.
C8_Idempotent ==
    n_out2 # None => /\ ~n_out2[1].raised
                     /\ n_out2[1].value = n_out[1].value

\* C8 witness: the normal form of an ABI that was not in normal form, holding two
\* different entries of equal key, has been normalized again.
C8_Witness ==
    /\ n_out2 # None
    /\ n_out[1].value # n_abi
    /\ \E i, j \in 1..Len(n_abi) : /\ n_abi[i] # n_abi[j]
                                   /\ SortKey(n_abi[i]) = SortKey(n_abi[j])

\* s reordered by p
Permuted(s, p) == [i \in 1..Len(s) |-> s[p[i]]]

\* every reordering of the argument of the call
Reorderings(s) == {Permuted(s, p) : p \in Permutations(1..Len(s))}

\* the entries of s whose key is k, in their order in s
WithKey(s, k) == SelectSeq(s, LAMBDA x : SortKey(x) = k)

\* s and t list the entries of each key in the same relative order
SameOrderPerKey(s, t) ==
    \A i \in 1..Len(s) : WithKey(s, SortKey(s[i])) = WithKey(t, SortKey(s[i]))

\* C9 as stated: normalization is independent of source ordering: two ABIs holding
\* the same entries in different orders, entries of the same name included, are
\* normalized to identical sequences.
C9_OrderIndependent ==
    n_out # None =>
        \A b \in Reorderings(n_abi) : abi_from_str(json_dumps(b)) = n_out[1]

\* C9 amended: two ABIs holding the same entries in different orders are normalized
\* to identical sequences (or both fail) when the entries that share a sort key
\* stand in the same relative order in both, in particular when no two entries
\* share a sort key.
C9_OrderIndependentUpToTies ==
    n_out # None =>
        \A b \in Reorderings(n_abi) :
            SameOrderPerKey(n_abi, b) =>
                /\ abi_from_str(json_dumps(b)) = n_out[1]
                /\ get_hash_from_dict(abi_from_str(json_dumps(b)).value)
                      = get_hash_from_dict(n_out[1].value)

\* C9 witness: a returned call on three entries of three different keys given in
\* an order that is not the sorted one.
C9_Witness ==
    /\ n_returned
    /\ Len(n_abi) = 3
    /\ n_out[1].value # n_abi
    /\ \A i, j \in 1..3 : i # j => SortKey(n_abi[i]) # SortKey(n_abi[j])

\* an entry lacking both name and type
LacksNameAndType(x) == x.name = None /\ x.type = None

\* C10 as stated: normalization fails for every ABI that holds at least one entry
\* lacking both name and type, whatever the number of entries.
C10_MalformedEntryRaises ==
    (n_out # None /\ \E k \in 1..Len(n_abi) : LacksNameAndType(n_abi[k]))
        => n_out[1].raised

--------------------------------------------------------------------------
(* Claims about the matcher (checked under SpecMatch). *)

\* the number of inputs of type t, by counting positions
NumberOfType(inputs, t) == Cardinality({k \in 1..Len(inputs) : inputs[k] = t})

\* name starts with prefix
HasPrefix(name, prefix) ==
    /\ Len(prefix) <= Len(name)
    /\ SubSeq(name, 1, Len(prefix)) = prefix

\* candidate event e is a name-prefix candidate of requirement r that has, of every
\* input type of r, at least as many inputs as r
Satisfies(e, r) ==
    /\ HasPrefix(e.name[1], r.name[1])
    /\ \A k \in 1..Len(r.inputs) :
          NumberOfType(r.inputs, r.inputs[k]) <= NumberOfType(e.inputs, r.inputs[k])

\* some event of the ABI satisfies requirement r
SomeEventSatisfies(abi, r) ==
    \E j \in 1..Len(abi) : abi[j].type = Some(StrEvent) /\ Satisfies(abi[j], r)

\* C3: similar_event_exists reports a match (returns a name, not None) if and only
\* if some event of the list has a name starting with the requirement's name and,
\* for every input type of the requirement, at least as many inputs of that type;
\* input order and extra inputs of the event play no part.
C3_SimilarIffPrefixAndCounts ==
    m_similar # None =>
        \A k \in 1..Len(m_contract.events) :
            (m_similar[1][k] # None)
                <=> SomeEventSatisfies(m_abi, m_contract.events[k])

\* C3 witness: Transfer(address,address,uint256) tested against
\* [Transfer(address,uint256), TransferSingle(address,address,uint256,uint256)]
\* has passed over the first event and returned the name of the second.
C3_Witness ==
    /\ m_similar = Some(<<Some(StrTransferSingle)>>)
    /\ m_contract.events =
          <<Requirement(StrTransfer, <<StrAddress, StrAddress, StrUint256>>)>>
    /\ m_abi = << EventEntry(StrTransfer, <<StrAddress, StrUint256>>),
                  EventEntry(StrTransferSingle,
                             <<StrAddress, StrAddress, StrUint256, StrUint256>>) >>

\* C4 as stated: a candidate ABI is accepted for a role if and only if every event
\* requirement of the role is matched by at least one event of the ABI, for every
\* requirement list and event list, names that are the empty string included.
C4_AcceptedIffAllMatched ==
    m_accept # None =>
        (m_accept[1] <=> \A k \in 1..Len(m_contract.events) :
                            SomeEventSatisfies(m_abi, m_contract.events[k]))

--------------------------------------------------------------------------
(* Claims about the assignment loop and the synthesis (checked under Spec). *)

\* the pool keys stored in the assignment
AssignedAddresses == {result[i].value.address : i \in 1..Len(result)}

\* the loops over the roles have ended
LoopEnded ==
    \/ pc = "assign" /\ ci > Len(config)
    \/ pc \in {"base", "write", "done"}
    \/ pc = "raised" /\ raised = "KeyError"

\* the context holds the config of every role
Synthesized == pc \in {"base", "write", "done"} \/ (pc = "raised" /\ raised = "KeyError")

\* C1: in every state of the assignment loop and after it, each role has at most
\* one assignment, no pool key (address or extra-ABI hash) is assigned to two
\* roles, and the consumed keys are exactly the keys stored in the assignment.
C1_OneAssignmentPerRoleAndKey ==
    /\ \A i, j \in 1..Len(result) :
          i # j => /\ result[i].key # result[j].key
                   /\ result[i].value.address # result[j].value.address
    /\ used_addresses = AssignedAddresses
    /\ DictKeys(result) \subseteq DictKeys(config)
    /\ AssignedAddresses \subseteq DictKeys(abis)

\* C1 witness: two roles are assigned, and the second role was tested against a
\* pool in which the candidate of the first, which its test accepts, is consumed.
C1_Witness ==
    /\ LoopEnded
    /\ Len(result) = 2
    /\ Accepts(config[2].value, result[1].value.abi)
    /\ result[1].key = config[1].key

\* the ABI has, for every requirement of the role, an event that satisfies it
SatisfiesRole(contract, abi) ==
    \A k \in 1..Len(contract.events) : SomeEventSatisfies(abi, contract.events[k])

\* the keys consumed by the roles before role k
ConsumedBefore(k) ==
    {DictGet(result, config[j].key).address :
        j \in {i \in 1..(k - 1) : DictHas(result, config[i].key)}}

\* the pool entries role k can take under the test ok: not consumed by an earlier
\* role, and passing the test
Eligible(k, ok(_, _)) ==
    {i \in 1..Len(abis) :
        abis[i].key \notin ConsumedBefore(k) /\ ok(config[k].value, abis[i].value)}

\* every role has the first eligible pool entry, and none when none is eligible
FirstEligibleAssigned(ok(_, _)) ==
    \A k \in 1..Len(config) :
        LET el == Eligible(k, ok) IN
        IF el = {} THEN ~DictHas(result, config[k].key)
        ELSE LET first == CHOOSE i \in el : \A j \in el : i <= j IN
             /\ DictHas(result, config[k].key)
             /\ DictGet(result, config[k].key).address = abis[first].key
             /\ DictGet(result, config[k].key).abi = abis[first].value

\* the entries of the pool file in the order of the file
PoolFileEntries == IF fs_input_abis = None THEN <<>> ELSE fs_input_abis[1]

\* the merged pool: the entries of the pool file first, then the normalized extra
\* ABIs in the order of the command line
PoolInInputOrder ==
    LET n == Len(PoolFileEntries)
        norm(j) == abi_from_str(argv_extra[j]).value
        from(i) == CHOOSE j \in 1..Len(argv_extra) :
                      /\ norm(j) = abis[i].value
                      /\ \A l \in 1..(j - 1) : norm(l) # abis[i].value
    IN  /\ Len(abis) >= n
        /\ SubSeq(abis, 1, n) = PoolFileEntries
        /\ \A j \in 1..Len(argv_extra) :
              \E i \in (n + 1)..Len(abis) : abis[i].value = norm(j)
        /\ \A i \in (n + 1)..Len(abis) :
              \E j \in 1..Len(argv_extra) : abis[i].value = norm(j)
        /\ \A i1, i2 \in (n + 1)..Len(abis) : i1 < i2 => from(i1) < from(i2)

\* C2 as stated: the pool is the pool-file entries followed by the extra ABIs in
\* command-line order, and when the loop has ended each role holds the first pool
\* entry, in that order, that no earlier role consumed and whose ABI satisfies the
\* whole role (every requirement matched by an event); a role is unassigned only if
\* there is no such entry.
C2_FirstSatisfyingInOrder ==
    LoopEnded => PoolInInputOrder /\ FirstEligibleAssigned(SatisfiesRole)

\* C2 with "satisfies the whole role" taken as the test of lines 104-109, which
\* differs from it by the defect of C4 only: this holds of the loop.
C2_FirstAcceptedInOrder ==
    LoopEnded => PoolInInputOrder /\ FirstEligibleAssigned(Accepts)

\* the seven derived keys of a role
DerivedSuffixes ==
    {"_name", "_address", "_start_block", "_address_test", "_start_block_test", "_abi"}

\* the mapping d says the role is absent: flag false, the six other keys null
SaysAbsent(d, role) ==
    /\ DictHas(d, role)
    /\ DictGet(d, role) = PyFalse
    /\ \A sfx \in DerivedSuffixes :
          DictHas(d, role \o sfx) /\ DictGet(d, role \o sfx) = PyNone

\* C5: for every role that received no assignment, the synthesized config (and the
\* written document) holds all seven derived keys of the role, the presence flag
\* false and the six others null, whatever the role's name ('resolver' included).
C5_AbsentRoleAllKeysNull ==
    /\ Synthesized =>
          \A k \in 1..Len(config) :
              ~DictHas(result, config[k].key) => SaysAbsent(context, config[k].key)
    /\ fs_output # None =>
          \A k \in 1..Len(config) :
              ~DictHas(result, config[k].key)
                  => SaysAbsent(fs_output[1].default_context, config[k].key)

\* C5 witness: the document is written for a configuration whose role 'resolver'
\* received no assignment while another role did.
C5_Witness ==
    /\ pc = "done"
    /\ DictHas(config, "resolver")
    /\ ~DictHas(result, "resolver")
    /\ Len(result) = 1

\* some declared role has no assignment
SomeRoleUnmatched == \E k \in 1..Len(config) : ~DictHas(result, config[k].key)

\* C6 as stated: a role that matches no candidate never makes the run fail: when the
\* loop ends with one, several or all roles unmatched (empty pool and missing pool
\* file included) the run does not end in an error before the document is written,
\* and the written document has an entry for every declared role.
C6_UnmatchedRoleNeverFails ==
    (LoopEnded /\ SomeRoleUnmatched) =>
        /\ pc # "raised"
        /\ fs_output # None =>
              \A k \in 1..Len(config) :
                  DictHas(fs_output[1].default_context, config[k].key)

\* C6 for the configurations that declare a role 'base' (the others end in the
\* KeyError of line 129, whatever was matched): this holds.
C6_UnmatchedRoleNeverFailsWithBase ==
    (LoopEnded /\ SomeRoleUnmatched /\ DictHas(config, "base")) =>
        /\ pc # "raised"
        /\ fs_output # None =>
              \A k \in 1..Len(config) :
                  DictHas(fs_output[1].default_context, config[k].key)

--------------------------------------------------------------------------
(* Claims about runs on malformed and repeated inputs (checked under       *)
(* SpecMerge).                                                             *)

\* the ABI has an entry lacking both name and type
HasMalformedEntry(abi) == \E k \in 1..Len(abi) : LacksNameAndType(abi[k])

\* the input of the run holds a malformed entry, in an ABI of the pool file or in
\* an extra ABI
MalformedInInput ==
    \/ \E i \in 1..Len(PoolFileEntries) : HasMalformedEntry(PoolFileEntries[i].value)
    \/ \E j \in 1..Len(argv_extra) : HasMalformedEntry(json_loads(argv_extra[j]))

\* the run has written the output file
Written == fs_output \notin {None, Some(OldDocument)}

\* C11 as stated: when an ABI of the pool file or an extra ABI holds an entry
\* lacking both name and type, the run aborts: it never completes, and the output
\* file is neither created nor modified.
C11_MalformedInputAborts ==
    MalformedInInput => pc # "done" /\ ~Written

--------------------------------------------------------------------------
(* Claims about events_from_abi (checked under SpecSignatures). *)

\* the parsed argument
e_abi == json_loads(e_raw)

\* the positions of the entries of type 'event', and the k-th of them in order
EventPositions(abi) == {i \in 1..Len(abi) : abi[i].type = Some(StrEvent)}
EventPosition(abi, k) ==
    CHOOSE i \in EventPositions(abi) :
        Cardinality({j \in EventPositions(abi) : j < i}) = k - 1

\* every event of the ABI has a name
AllEventsNamed(abi) == \A i \in EventPositions(abi) : abi[i].name # None

\* reading a text "name(t1,...,tk)" back: the position of the first '(', the name
\* before it, and the fields between the commas of what the parentheses enclose
OpenAt(s) == CHOOSE i \in 1..Len(s) : s[i] = 40 /\ \A j \in 1..(i - 1) : s[j] # 40
NameIn(s) == SubSeq(s, 1, OpenAt(s) - 1)
Enclosed(s) == SubSeq(s, OpenAt(s) + 1, Len(s) - 1)
Commas(t) == {i \in 1..Len(t) : t[i] = 44}
Cut(t, k) ==
    IF k = 0 THEN 0
    ELSE IF k > Cardinality(Commas(t)) THEN Len(t) + 1
    ELSE CHOOSE i \in Commas(t) : Cardinality({j \in Commas(t) : j < i}) = k - 1
Fields(t) ==
    IF t = <<>> THEN <<>>
    ELSE [k \in 1..(Cardinality(Commas(t)) + 1) |->
             SubSeq(t, Cut(t, k - 1) + 1, Cut(t, k) - 1)]

\* s is name(t1,...,tk) for the name and the input types of entry x in their
\* declared order
IsSignatureOf(s, x) ==
    /\ Len(s) >= 2
    /\ s[Len(s)] = 41
    /\ \E i \in 1..Len(s) : s[i] = 40
    /\ NameIn(s) = x.name[1]
    /\ Fields(Enclosed(s)) = x.inputs

\* sigs has one text per event of the ABI, in the order of the events in the ABI
AreSignaturesOf(sigs, abi) ==
    /\ Len(sigs) = Cardinality(EventPositions(abi))
    /\ \A k \in 1..Len(sigs) : IsSignatureOf(sigs[k], abi[EventPosition(abi, k)])

\* the call on abi gave out: it returned the texts of the events when every event
\* has a name, and raised otherwise
SignaturesAsClaimed(out, abi) ==
    IF AllEventsNamed(abi)
    THEN ~out.raised /\ AreSignaturesOf(out.value, abi)
    ELSE out.raised

\* C12: for an ABI whose events all have a name, events_from_abi returns one text
\* per entry of type 'event', in the relative order of those entries, each of the
\* form name(t1,...,tk) with the input types in their declared order; entries that
\* are no events give nothing; and called on the normalized ABI it gives, for
\* every event of the ABI as given, the text with the inputs in the declared order.
C12_EventSignatures ==
    /\ e_events # None => SignaturesAsClaimed(e_events[1], e_abi)
    /\ e_events_norm # None =>
          /\ SignaturesAsClaimed(e_events_norm[1], abi_from_str(e_raw).value)
          /\ AllEventsNamed(e_abi) =>
                /\ Len(e_events_norm[1].value) = Cardinality(EventPositions(e_abi))
                /\ \A i \in EventPositions(e_abi) :
                      \E k \in 1..Len(e_events_norm[1].value) :
                          IsSignatureOf(e_events_norm[1].value[k], e_abi[i])

\* C12 witness: both calls have returned for [event Transfer(uint256,address),
\* constructor, event Approval(address,address,uint256)], which normalization
\* reorders: two texts in the order of the ABI as given, and the same two in the
\* order of the normalized ABI.
C12_Witness ==
    LET transfer == StrTransfer \o <<40>> \o StrUint256 \o <<44>> \o StrAddress \o <<41>>
        approval == StrApproval \o <<40>> \o StrAddress \o <<44>> \o StrAddress
                        \o <<44>> \o StrUint256 \o <<41>>
    IN  /\ e_abi = << EventEntry(StrTransfer, <<StrUint256, StrAddress>>),
                      ConstructorEntry(<<StrAddress>>),
                      EventEntry(StrApproval, <<StrAddress, StrAddress, StrUint256>>) >>
        /\ e_events = Some([raised |-> FALSE, value |-> <<transfer, approval>>])
        /\ e_events_norm = Some([raised |-> FALSE, value |-> <<approval, transfer>>])

\* extra ABI j has the normalized content of an extra ABI before it
RepeatsEarlier(extras, j) ==
    \E l \in 1..(j - 1) :
        /\ ~abi_from_str(extras[l]).raised
        /\ abi_from_str(extras[l]) = abi_from_str(extras[j])

\* the first k extra ABIs with every content supplied once: those that repeat the
\* content of an earlier one are left out
RECURSIVE SuppliedOnce(_, _)
SuppliedOnce(extras, k) ==
    IF k = 0 THEN <<>>
    ELSE IF RepeatsEarlier(extras, k) THEN SuppliedOnce(extras, k - 1)
    ELSE Append(SuppliedOnce(extras, k - 1), extras[k])

--------------------------------------------------------------------------
(* Claims about the synthesized config (checked under Spec). *)

\* reading the mapping d: the presence flag of the role is a bool and says whether
\* the role has an assignment
FlagReadBack(d, role) ==
    /\ DictHas(d, role)
    /\ DictGet(d, role)[1] = "bool"
    /\ DictGet(d, role)[2] <=> DictHas(result, role)

\* reading the mapping d: the address of the role is a str and is the pool key
\* the role was assigned
AddressReadBack(d, role) ==
    /\ DictHas(d, role \o "_address")
    /\ DictGet(d, role \o "_address")[1] = "str"
    /\ DictGet(d, role \o "_address")[2] = DictGet(result, role).address

\* the synthesized config, and the mapping of the written document
SynthesizedConfigs ==
    (IF Synthesized THEN {context} ELSE {})
        \cup (IF fs_output # None THEN {fs_output[1].default_context} ELSE {})

\* C14 as stated: for every assignment over every role configuration, one where
\* 'resolver' is assigned included, the presence flag of each role and the address
\* assigned to each present role are read back from the synthesized config with
\* the same values.
C14_RoundTrip ==
    \A d \in SynthesizedConfigs :
        \A k \in 1..Len(config) :
            /\ FlagReadBack(d, config[k].key)
            /\ DictHas(result, config[k].key) => AddressReadBack(d, config[k].key)

\* C14 amended: the presence flag of each role, and the address assigned to each
\* present role other than 'resolver', are read back with the same values; the
\* address assigned to 'resolver' is not in the synthesized config.
C14_RoundTripButResolver ==
    \A d \in SynthesizedConfigs :
        \A k \in 1..Len(config) :
            /\ FlagReadBack(d, config[k].key)
            /\ DictHas(result, config[k].key) =>
                  IF config[k].key = "resolver"
                  THEN ~DictHas(d, "resolver_address")
                  ELSE AddressReadBack(d, config[k].key)

\* C14 witness: the document is written for a configuration of two roles, both
\* assigned, one of them 'resolver'.
C14_Witness ==
    /\ pc = "done"
    /\ Len(result) = 2
    /\ DictHas(result, "resolver")
    /\ DictHas(result, "base")

\* the keys an operator fills in
OperatorSuffixes == {"_start_block", "_address_test", "_start_block_test"}

\* the ABI of the pool entry the role was assigned
MatchedAbi(role) == DictGet(abis, DictGet(result, role).address)

\* C18: for every role that received an assignment, the synthesized config has the
\* flag <role> true, <role>_name the default_name of the role in the role
\* configuration, <role>_abi the JSON text of the matched ABI, and each of
\* <role>_start_block, <role>_address_test and <role>_start_block_test, where the
\* key is emitted, the marker 'TODO: fill'.
C18_AssignedRoleKeys ==
    \A d \in SynthesizedConfigs :
        \A k \in 1..Len(config) :
            LET role == config[k].key IN
            DictHas(result, role) =>
                /\ DictHas(d, role)
                /\ DictGet(d, role) = <<"bool", TRUE>>
                /\ DictHas(d, role \o "_name")
                /\ DictGet(d, role \o "_name") = <<"str", config[k].value.default_name>>
                /\ DictHas(d, role \o "_abi")
                /\ DictGet(d, role \o "_abi") = <<"json", json_dumps(MatchedAbi(role))>>
                /\ \A sfx \in OperatorSuffixes :
                      DictHas(d, role \o sfx)
                          => DictGet(d, role \o sfx) = <<"str", "TODO: fill">>

\* C18 witness: the document is written with 'registry' assigned the pool entry
\* 0x2 whose ABI has the Transfer and Approval events; its three operator keys are
\* emitted with the marker.
C18_Witness ==
    /\ fs_output # None
    /\ DictHas(result, "registry")
    /\ DictGet(result, "registry").address = Address(2)
    /\ DictGet(fs_output[1].default_context, "registry_abi")
          = <<"json", json_dumps(AbiTransferApproval)>>
    /\ \A sfx \in OperatorSuffixes :
          /\ DictHas(fs_output[1].default_context, "registry" \o sfx)
          /\ DictGet(fs_output[1].default_context, "registry" \o sfx)
                = <<"str", "TODO: fill">>

\* C19 as stated: for an assigned role other than 'resolver' the key <role>_address
\* is present and is the pool key the role was assigned; for an assigned 'resolver'
\* the key resolver_address is omitted and every other derived key is present.
C19_OnlyAddressOmitted ==
    \A d \in SynthesizedConfigs :
        \A k \in 1..Len(config) :
            LET role == config[k].key IN
            DictHas(result, role) =>
                IF role # "resolver"
                THEN AddressReadBack(d, role)
                ELSE /\ ~DictHas(d, "resolver_address")
                     /\ DictHas(d, role)
                     /\ \A sfx \in DerivedSuffixes \ {"_address"} :
                           DictHas(d, role \o sfx)

\* the context after lines 129-133, and the mapping of the written document
FinalContexts ==
    (IF pc \in {"write", "done"} \/ (pc = "raised" /\ raised = "KeyError")
     THEN {context} ELSE {})
        \cup (IF fs_output # None THEN {fs_output[1].default_context} ELSE {})

\* both base keys are in d with the marker, and neither is in d
HasBaseKeys(d) ==
    \A key \in {"base_tld", "base_tld_hash"} :
        DictHas(d, key) /\ DictGet(d, key) = <<"str", "TODO: fill">>
NoBaseKeys(d) == \A key \in {"base_tld", "base_tld_hash"} : ~DictHas(d, key)

\* C20: the keys base_tld and base_tld_hash are in the synthesized context, as
\* markers, if and only if the role 'base' received an assignment; when 'base' is
\* declared but unmatched, neither is there.
C20_BaseKeysIffBaseAssigned ==
    \A d \in FinalContexts :
        IF DictHas(result, "base") THEN HasBaseKeys(d) ELSE NoBaseKeys(d)

\* C20 witness: the document is written for a configuration of 'base' and another
\* role in which 'base' is assigned and the other role is not; it has both keys.
C20_Witness ==
    /\ pc = "done"
    /\ Len(config) = 2
    /\ DictKeys(result) = {"base"}
    /\ HasBaseKeys(fs_output[1].default_context)

--------------------------------------------------------------------------
(* Claims about the work of the assignment loop (checked under            *)
(* FairSpecMerge).                                                         *)

\* the position of a role in the role configuration
RoleIndex(role) == CHOOSE k \in 1..Len(config) : config[k].key = role

\* the evaluations made so far: at most N*M of them, none made twice, none of a
\* pool entry consumed by an earlier role, none for a role after the evaluation
\* that assigned it
EvaluationsBounded ==
    /\ Len(evals) <= Len(abis) * Len(config)
    /\ \A e \in 1..Len(evals) :
          /\ evals[e][1] \in DictKeys(config)
          /\ evals[e][2] \in DictKeys(abis)
    /\ \A e1, e2 \in 1..Len(evals) : e1 # e2 => evals[e1] # evals[e2]
    /\ \A e \in 1..Len(evals) :
          \A i \in 1..Len(result) :
              RoleIndex(result[i].key) < RoleIndex(evals[e][1])
                  => evals[e][2] # result[i].value.address
    /\ \A e1, e2 \in 1..Len(evals) :
          (/\ e1 < e2
           /\ DictHas(result, evals[e1][1])
           /\ evals[e1][2] = DictGet(result, evals[e1][1]).address)
              => evals[e2][1] # evals[e1][1]

\* C15: the assignment loop makes at most N*M whole-role evaluations for a pool of
\* N entries and M roles: per role each pool entry at most once, no entry consumed
\* by an earlier role, and none after the one that assigned the role; and the loop,
\* once entered, ends.
C15_BoundedEvaluationsAndTermination ==
    /\ []EvaluationsBounded
    /\ (pc = "assign") ~> LoopEnded

\* C15 witness: the loop has ended for two roles and three pool entries after
\* three of the six possible evaluations: the first role took the first entry and
\* was tested on no other, the second role was not tested on that entry, rejected
\* the second and took the third.
C15_Witness ==
    /\ LoopEnded
    /\ Len(config) = 2
    /\ Len(abis) = 3
    /\ evals = << <<config[1].key, abis[1].key>>, <<config[2].key, abis[2].key>>,
                  <<config[2].key, abis[3].key>> >>
    /\ DictGet(result, config[1].key).address = abis[1].key
    /\ DictGet(result, config[2].key).address = abis[3].key

--------------------------------------------------------------------------
(* Claims about the order of the search (checked under SpecMatch). *)

\* the positions in the event list of the events that satisfy requirement r
SatisfyingPositions(events, r) == {j \in 1..Len(events) : Satisfies(events[j], r)}

\* C16: when one or several events of the candidate ABI are name-prefix candidates
\* satisfying the count condition of a requirement, similar_event_exists returns
\* the name of the one that stands first in the event list; prefix candidates
\* before it that fail the count condition are passed over.
C16_FirstSatisfyingInListOrder ==
    m_similar # None =>
        \A k \in 1..Len(m_contract.events) :
            LET events == only_events(m_abi)
                sat == SatisfyingPositions(events, m_contract.events[k])
            IN  sat # {} =>
                    LET first == CHOOSE j \in sat : \A l \in sat : j <= l IN
                    m_similar[1][k] = events[first].name

\* C16 witness: [Transfer(address,uint256), TransferSingle(address,address,
\* uint256,uint256)] tested for Transfer() and Transfer(address,address,uint256):
\* both events satisfy the first requirement and the name of the first is
\* returned; the first event is a prefix candidate of the second requirement that
\* fails the counts, and the name of the second is returned.
C16_Witness ==
    /\ m_abi = << EventEntry(StrTransfer, <<StrAddress, StrUint256>>),
                  EventEntry(StrTransferSingle,
                             <<StrAddress, StrAddress, StrUint256, StrUint256>>) >>
    /\ m_contract.events =
          << Requirement(StrTransfer, <<>>),
             Requirement(StrTransfer, <<StrAddress, StrAddress, StrUint256>>) >>
    /\ m_similar = Some(<< Some(StrTransfer), Some(StrTransferSingle) >>)

\* the outcomes of matching requirement r on the events of an ABI without a match
NoPrefixCandidate(abi, r) ==
    \A j \in 1..Len(only_events(abi)) :
        ~HasPrefix(only_events(abi)[j].name[1], r.name[1])
PrefixButNoCounts(abi, r) ==
    /\ ~NoPrefixCandidate(abi, r)
    /\ SatisfyingPositions(only_events(abi), r) = {}

\* C17 as stated: the result of matching one requirement tells the outcome 'no
\* event has the requirement's name as a prefix' from the outcome 'some event has
\* the prefix but none satisfies the counts': the values returned for the two
\* outcomes differ.
C17_OutcomesDistinguished ==
    m_similar # None =>
        \A k1, k2 \in 1..Len(m_contract.events) :
            (/\ NoPrefixCandidate(m_abi, m_contract.events[k1])
             /\ PrefixButNoCounts(m_abi, m_contract.events[k2]))
                => m_similar[1][k1] # m_similar[1][k2]

--------------------------------------------------------------------------
(* Claims about the resolver as a whole: what it misses, what fixes its    *)
(* outcome, what it writes (checked under Spec).                           *)

\* the pool entries whose ABI passes the test of role k and satisfies the role
Candidates(k) ==
    {i \in 1..Len(abis) :
        Accepts(config[k].value, abis[i].value) /\ SatisfiesRole(config[k].value, abis[i].value)}

\* the assignments giving every role a pool entry of its own that satisfies it
CompleteAssignments ==
    {f \in [1..Len(config) -> 1..Len(abis)] :
        /\ \A k1, k2 \in 1..Len(config) : k1 # k2 => f[k1] # f[k2]
        /\ \A k \in 1..Len(config) : f[k] \in Candidates(k)}

\* an assignment made is not changed by a later step of the loops
NeverRevised ==
    (pc = "assign" /\ pc' = "assign") =>
        /\ Len(result') >= Len(result)
        /\ \A i \in 1..Len(result) : result'[i] = result[i]

\* when the loops have ended, a role without assignment has every pool entry that
\* passes its test consumed by an earlier role
UnassignedOnlyByConsumption ==
    LoopEnded =>
        \A k \in 1..Len(config) :
            ~DictHas(result, config[k].key) =>
                \A i \in 1..Len(abis) :
                    Accepts(config[k].value, abis[i].value) =>
                        abis[i].key \in ConsumedBefore(k)

\* C21: the resolver is greedy and not globally optimal: a role ends unassigned
\* only because earlier roles consumed every candidate that passes its test, and an
\* assignment once made is never revised; so there are a role list and a pool with
\* a complete assignment of distinct satisfying candidates which the resolver
\* nevertheless ends with a role unassigned (the witness).
C21_GreedyNeverRevised == [](UnassignedOnlyByConsumption) /\ [][NeverRevised]_vars

\* C21 witness: the loops have ended with a role unassigned whose only satisfying
\* candidate was consumed by an earlier role, although a complete assignment exists.
C21_Witness ==
    /\ LoopEnded
    /\ CompleteAssignments # {}
    /\ \E k \in 1..Len(config) :
          /\ ~DictHas(result, config[k].key)
          /\ \E i \in 1..Len(abis) :
                /\ Candidates(k) = {i}
                /\ abis[i].key \in ConsumedBefore(k)

--------------------------------------------------------------------------
(* Determinism of the assignment and the synthesis (checked under          *)
(* SpecMerge, whose runs differ in the key of str hashing too).            *)

\* C22: the assignment and the synthesized config are functions of the ordered
\* role configuration and the ordered candidate pool: at every point of the loops
\* the assignment is the one the roles passed so far get from the pool in order,
\* and the context and the written document are the ones built from the
\* configuration and that assignment; nothing else of the run (the key of the
\* process's str hashing, the document of an earlier run) enters the outcome.
C22_OutcomeFixedByOrderedInputs ==
    /\ (pc = "assign" /\ ci <= Len(config)) =>
          result = AssignRoles(abis, SubSeq(config, 1, ci - 1), 1, <<>>)
    /\ LoopEnded => result = AssignRoles(abis, config, 1, <<>>)
    /\ pc \in {"write", "done"} =>
          context = ContextOf(config, AssignRoles(abis, config, 1, <<>>))
    /\ pc = "done" =>
          fs_output =
              Some([default_context |->
                        ContextOf(config, AssignRoles(abis, config, 1, <<>>))])

\* C22 witness: a document is written by a process whose str hashing is keyed, over
\* the document of an earlier run, with a role assigned an extra ABI (whose pool
\* key is a hash) taken after a candidate of the pool file was passed over.
C22_Witness ==
    /\ pc = "done"
    /\ hash_seed = 1
    /\ fs_output # Some(OldDocument)
    /\ Len(abis) >= 2
    /\ \E i \in 1..Len(result) :
          result[i].value.address \notin DictKeys(PoolFileEntries)

--------------------------------------------------------------------------
(* What a run writes and what it leaves alone (checked under SpecMerge:    *)
(* extra ABIs are merged, an earlier document may be in the output file).  *)

\* a step of the run writes the output file
WritesOutput == fs_output' # fs_output

\* the frame of a step: the pool file and the role configuration file stay as they
\* are; the entries of the in-memory pool stay as they are (merging an extra ABI
\* only adds an entry or stores the same content again); the output file is written
\* only by the last step, after assignment and synthesis, with the context
FrameOfStep ==
    /\ fs_input_abis' = fs_input_abis
    /\ fs_config' = fs_config
    /\ pc = "extras" =>
          /\ Len(abis') >= Len(abis)
          /\ \A i \in 1..Len(abis) : abis'[i] = abis[i]
    /\ pc \in {"assign", "base", "write", "done", "raised"} => abis' = abis
    /\ WritesOutput =>
          /\ pc = "write" /\ pc' = "done"
          /\ LoopEnded /\ context = ContextOf(config, result)
          /\ fs_output' = Some([default_context |-> context])

\* C23: a run writes one document only, the output config, in its last step, when
\* assignment and synthesis are complete (a completed run has written it, and no
\* step follows the write); no step changes the candidate pool file or the role
\* configuration file, and no step of matching, assignment or synthesis changes the
\* in-memory pool, whose entries the merging of extra ABIs leaves as they were.
C23_OneWriteAtTheEnd ==
    /\ [](pc = "done" => Written /\ ~ENABLED Next)
    /\ [](pc \notin {"write", "done"} => ~Written)
    /\ [][FrameOfStep]_vars

\* C23 witness: the run is complete on a pool into which an extra ABI was merged
\* after the entry of the pool file, and the document replaced that of an earlier
\* run; the pool file has the one entry it had.
C23_Witness ==
    /\ pc = "done"
    /\ Written
    /\ fs_input_abis # None
    /\ Len(abis) > Len(PoolFileEntries)
    /\ Len(result) >= 1

--------------------------------------------------------------------------
(* Runs on role configurations without a role 'base' (checked under Spec). *)

\* C24 as stated: for every role configuration, one that declares no role named
\* 'base' and the empty one included, the run does not end in an error after the
\* synthesis: it goes on to write the document, which then has no base-specific
\* extra key.
C24_CompletesWithoutBase ==
    (Synthesized /\ ~DictHas(config, "base")) =>
        /\ raised = ""
        /\ pc = "done" => fs_output # None /\ NoBaseKeys(fs_output[1].default_context)

--------------------------------------------------------------------------
(* Specification of a run of the deployer: main (deployer.py:157-167) and  *)
(* deploy_subgraph (82-118). The src/*.ts files are texts, keyed by their  *)
(* position in the list glob returns; a file that is not valid UTF-8 makes *)
(* process_files raise when it is read. Every shell command may end with   *)
(* any exit code; the operator may give any answer.                        *)

\* the number of src/*.ts files of the subgraph
MaxFiles == 2

\* "{{network}}"
StrPlaceholder == <<123, 123, 110, 101, 116, 119, 111, 114, 107, 125, 125>>
\* "eth"
StrEth == <<101, 116, 104>>
\* "x="
StrXEq == <<120, 61>>

\* str.replace(old, new), old not empty: the occurrences of old, found from the
\* left and not overlapping, are replaced
RECURSIVE str_replace(_, _, _)
str_replace(text, old, new) ==
    IF Len(text) < Len(old) THEN text
    ELSE IF SubSeq(text, 1, Len(old)) = old
         THEN new \o str_replace(SubSeq(text, Len(old) + 1, Len(text)), old, new)
         ELSE <<Head(text)>> \o str_replace(Tail(text), old, new)

\* lines 152-153
template_content(content, network) == str_replace(content, StrPlaceholder, network)

\* str.lower() of an ASCII text
str_lower(text) ==
    [i \in 1..Len(text) |-> IF text[i] \in 65..90 THEN text[i] + 32 ELSE text[i]]

\* the contents of a source file: no placeholder, one, two, a broken one
FileContents ==
    { StrXEq,
      StrXEq \o StrPlaceholder,
      StrPlaceholder \o StrXEq \o StrPlaceholder,
      StrXEq \o Tail(StrPlaceholder) }

\* the exit codes of a shell command
ExitCodes == {0, 1, 2}

\* the answers of the operator: y, Y, n, the empty line, yes
Answers == { <<121>>, <<89>>, <<110>>, <<>>, <<121, 101, 115>> }

\* the inputs of a run: whether the protocol is in the config, whether package.json
\* exists, --prod, the network of the protocol, the source files and which of them
\* cannot be decoded
DeployInputs ==
    UNION { { [known |-> k, package |-> pk, prod |-> pr, network |-> StrEth,
               files |-> fl, undecodable |-> bad] :
                k \in BOOLEAN, pk \in BOOLEAN, pr \in BOOLEAN,
                bad \in SUBSET (1..Len(fl)) } :
            fl \in SeqsUpTo(FileContents, MaxFiles) }

InitDeploy ==
    /\ n_idle /\ m_idle /\ x_idle /\ e_idle /\ p_idle /\ g_idle
    /\ d_in \in DeployInputs
    /\ d_pc = "main"
    /\ d_files = d_in.files
    /\ d_fi = 0
    /\ d_local = <<>>
    /\ d_saved = <<>>
    /\ d_cmds = <<>>
    /\ d_answer = None
    /\ d_pending = ""
    /\ d_status = None

\* lines 73-75 outside the try statement: exit(1) ends the process
ErrorExits ==
    /\ d_pc' = "exit"
    /\ d_status' = Some(1)
    /\ UNCHANGED d_pending

\* lines 73-75 inside the try statement: SystemExit passes through the finally
ErrorInTry ==
    /\ d_pc' = "finally"
    /\ d_pending' = "SystemExit"
    /\ UNCHANGED d_status

\* lines 161-164: the protocol is not in the config
ProtocolUnknown ==
    /\ d_pc = "main"
    /\ ~d_in.known
    /\ ErrorExits
    /\ UNCHANGED <<d_in, d_files, d_fi, d_local, d_saved, d_cmds, d_answer,
                   n_vars, m_vars, x_vars, e_vars, p_vars, g_vars>>

\* lines 161-167, 82-95: the protocol is found, deploy_subgraph is entered
ProtocolFound ==
    /\ d_pc = "main"
    /\ d_in.known
    /\ d_pc' = "package"
    /\ UNCHANGED <<d_in, d_files, d_fi, d_local, d_saved, d_cmds, d_answer,
                   d_pending, d_status, n_vars, m_vars, x_vars, e_vars, p_vars, g_vars>>

\* lines 97-98: package.json is missing
PackageMissing ==
    /\ d_pc = "package"
    /\ ~d_in.package
    /\ ErrorExits
    /\ UNCHANGED <<d_in, d_files, d_fi, d_local, d_saved, d_cmds, d_answer,
                   n_vars, m_vars, x_vars, e_vars, p_vars, g_vars>>

\* line 97: package.json is there
PackageFound ==
    /\ d_pc = "package"
    /\ d_in.package
    /\ d_pc' = "install"
    /\ UNCHANGED <<d_in, d_files, d_fi, d_local, d_saved, d_cmds, d_answer,
                   d_pending, d_status, n_vars, m_vars, x_vars, e_vars, p_vars, g_vars>>

\* exec_on_shell going on whatever the exit code
exec_on_shell_unchecked(cmd, next, in_try) ==
    \E code \in ExitCodes :
        /\ d_cmds' = Append(d_cmds, [cmd |-> cmd, code |-> code])
        /\ d_pc' = next /\ UNCHANGED <<d_pending, d_status>>

\* lines 33-53: the command is issued and waited for; on exit code 0 the run goes
\* on at next, on another code error() ends it (inside the try statement when
\* in_try)
exec_on_shell(cmd, next, in_try) ==
    \E code \in ExitCodes :
        /\ d_cmds' = Append(d_cmds, [cmd |-> cmd, code |-> code])
        /\ IF code = 0
           THEN d_pc' = next /\ UNCHANGED <<d_pending, d_status>>
           ELSE IF in_try THEN ErrorInTry ELSE ErrorExits

\* line 100
Install ==
    /\ d_pc = "install"
    /\ exec_on_shell("install", "codegen", FALSE)
    /\ UNCHANGED <<d_in, d_files, d_fi, d_local, d_saved, d_answer,
                   n_vars, m_vars, x_vars, e_vars, p_vars, g_vars>>

\* line 101
Codegen ==
    /\ d_pc = "codegen"
    /\ exec_on_shell("codegen", "try", FALSE)
    /\ UNCHANGED <<d_in, d_files, d_fi, d_local, d_saved, d_answer,
                   n_vars, m_vars, x_vars, e_vars, p_vars, g_vars>>

\* lines 103-105, 126-130: original_contents = {}, the try statement is entered,
\* process_files is called and lists the files
EnterTry ==
    /\ d_pc = "try"
    /\ d_saved' = <<>>
    /\ d_local' = <<>>
    /\ d_fi' = 1
    /\ d_pc' = "process"
    /\ UNCHANGED <<d_in, d_files, d_cmds, d_answer, d_pending, d_status,
                   n_vars, m_vars, x_vars, e_vars, p_vars, g_vars>>

\* lines 132-139: a file is read, its content kept, and rewritten templated
ProcessFile ==
    /\ d_pc = "process"
    /\ d_fi <= Len(d_files)
    /\ d_fi \notin d_in.undecodable
    /\ d_local' = DictSet(d_local, d_fi, d_files[d_fi])
    /\ d_files' = [d_files EXCEPT ![d_fi] = template_content(d_files[d_fi], d_in.network)]
    /\ d_fi' = d_fi + 1
    /\ UNCHANGED <<d_in, d_pc, d_saved, d_cmds, d_answer, d_pending, d_status,
                   n_vars, m_vars, x_vars, e_vars, p_vars, g_vars>>

\* line 134 raising: the file is not valid UTF-8; process_files is left by the
\* exception, the assignment of line 105 does not take place
ProcessFileRaises ==
    /\ d_pc = "process"
    /\ d_fi <= Len(d_files)
    /\ d_fi \in d_in.undecodable
    /\ d_pc' = "finally"
    /\ d_pending' = "UnicodeDecodeError"
    /\ UNCHANGED <<d_in, d_files, d_fi, d_local, d_saved, d_cmds, d_answer, d_status,
                   n_vars, m_vars, x_vars, e_vars, p_vars, g_vars>>

\* lines 141 and 105: process_files returns its dict, which deploy_subgraph keeps
ProcessFilesReturns ==
    /\ d_pc = "process"
    /\ d_fi > Len(d_files)
    /\ d_saved' = d_local
    /\ d_pc' = "build"
    /\ UNCHANGED <<d_in, d_files, d_fi, d_local, d_cmds, d_answer, d_pending, d_status,
                   n_vars, m_vars, x_vars, e_vars, p_vars, g_vars>>

\* line 106
Build ==
    /\ d_pc = "build"
    /\ exec_on_shell("build", "create", TRUE)
    /\ UNCHANGED <<d_in, d_files, d_fi, d_local, d_saved, d_answer,
                   n_vars, m_vars, x_vars, e_vars, p_vars, g_vars>>

\* lines 107-109
GraphCreate ==
    /\ d_pc = "create"
    /\ exec_on_shell("graph create", IF d_in.prod THEN "confirm" ELSE "deploy", TRUE)
    /\ UNCHANGED <<d_in, d_files, d_fi, d_local, d_saved, d_answer,
                   n_vars, m_vars, x_vars, e_vars, p_vars, g_vars>>

\* an answer accepted when it is the letter y in lower case only
AgreesExactly(answer) == answer = <<121>>

\* the answer accepted by line 111
Agrees(answer) == str_lower(answer) = <<121>>

\* lines 110-112: the operator is asked; any answer but y or Y aborts
Confirm ==
    /\ d_pc = "confirm"
    /\ \E answer \in Answers :
          /\ d_answer' = Some(answer)
          /\ IF Agrees(answer)
             THEN d_pc' = "deploy" /\ UNCHANGED <<d_pending, d_status>>
             ELSE ErrorInTry
    /\ UNCHANGED <<d_in, d_files, d_fi, d_local, d_saved, d_cmds,
                   n_vars, m_vars, x_vars, e_vars, p_vars, g_vars>>

\* line 114
GraphDeploy ==
    /\ d_pc = "deploy"
    /\ exec_on_shell("graph deploy", "finally", TRUE)
    /\ UNCHANGED <<d_in, d_files, d_fi, d_local, d_saved, d_answer,
                   n_vars, m_vars, x_vars, e_vars, p_vars, g_vars>>

\* lines 147-149: every file of the dict is written with the content kept
return_original_files(files, original_contents) ==
    [i \in 1..Len(files) |->
        IF DictHas(original_contents, i) THEN DictGet(original_contents, i)
        ELSE files[i]]

\* lines 117-118: the finally clause restores the files; then the process ends,
\* with status 0, or 1 when an exception (SystemExit(1) or an error) is passing
Finally ==
    /\ d_pc = "finally"
    /\ d_files' = return_original_files(d_files, d_saved)
    /\ d_pc' = "exit"
    /\ d_status' = Some(IF d_pending = "" THEN 0 ELSE 1)
    /\ UNCHANGED <<d_in, d_fi, d_local, d_saved, d_cmds, d_answer, d_pending,
                   n_vars, m_vars, x_vars, e_vars, p_vars, g_vars>>

NextDeploy ==
    \/ ProtocolUnknown
    \/ ProtocolFound
    \/ PackageMissing
    \/ PackageFound
    \/ Install
    \/ Codegen
    \/ EnterTry
    \/ ProcessFile
    \/ ProcessFileRaises
    \/ ProcessFilesReturns
    \/ Build
    \/ GraphCreate
    \/ Confirm
    \/ GraphDeploy
    \/ Finally

SpecDeploy == InitDeploy /\ [][NextDeploy]_vars

--------------------------------------------------------------------------
(* Claims about the deployer (checked under SpecDeploy).                   *)

\* process_files has rewritten the file at position i of the list
Rewritten(i) == d_fi > i

\* the file was rewritten with the placeholder substituted: its content changed
Substituted(i) ==
    Rewritten(i) /\ template_content(d_in.files[i], d_in.network) # d_in.files[i]

\* deploy_subgraph has ended after templating had started
EndedAfterTemplating == d_pc = "exit" /\ d_fi >= 1

\* C25 as stated: whenever deploy_subgraph has ended after templating had started
\* (normally, on a failed command, on an aborted confirmation, or on an error
\* raised in process_files after some files were rewritten), every file that was
\* rewritten with the placeholder substituted holds its original content again.
C25_RewrittenFilesRestored ==
    EndedAfterTemplating =>
        \A i \in 1..Len(d_files) : Substituted(i) => d_files[i] = d_in.files[i]

\* C25 for the endings in which process_files had returned (normal completion, a
\* failed command, an aborted confirmation): this holds.
C25_RestoredWhenProcessFilesReturned ==
    (EndedAfterTemplating /\ d_pending # "UnicodeDecodeError") =>
        d_files = d_in.files

\* the deploy command has been issued
DeployIssued == \E i \in 1..Len(d_cmds) : d_cmds[i].cmd = "graph deploy"

\* the texts y and Y
Yes == { <<121>>, <<89>> }

\* C26: with --prod, the deploy command is issued only after the operator has
\* answered y or Y to the prompt, and after such an answer the run goes on to
\* issue it; after any other answer the command is never issued, the run goes to
\* its end, and the process ends with exit status 1.
C26_DeployOnlyAfterYes ==
    d_in.prod =>
        /\ DeployIssued => d_answer # None /\ d_answer[1] \in Yes
        /\ (d_answer # None /\ d_answer[1] \in Yes) =>
              \/ d_pc = "deploy" /\ d_pending = ""
              \/ DeployIssued
        /\ (d_answer # None /\ d_answer[1] \notin Yes) =>
              /\ ~DeployIssued
              /\ d_pc \in {"finally", "exit"}
              /\ d_pc = "exit" => d_status = Some(1)

\* C26 witness: with --prod the operator answered Y, the deploy command was issued
\* and ended with code 0, and the process ended with status 0.
C26_Witness ==
    /\ d_in.prod
    /\ d_answer = Some(<<89>>)
    /\ d_pc = "exit"
    /\ Len(d_cmds) = 5
    /\ d_cmds[5] = [cmd |-> "graph deploy", code |-> 0]
    /\ d_status = Some(0)

\* the commands of a deployment, in order
CommandOrder == <<"install", "codegen", "build", "graph create", "graph deploy">>

\* C27: the commands issued are, in order, the first ones of install, codegen,
\* build, graph create, graph deploy, each issued after the one before it ended
\* with exit code 0; once a command ended with another code none is issued after
\* it and the process ends with status 1; none is issued when package.json is
\* missing or the protocol is not in the config.
C27_CommandsInOrder ==
    /\ Len(d_cmds) <= Len(CommandOrder)
    /\ \A i \in 1..Len(d_cmds) : d_cmds[i].cmd = CommandOrder[i]
    /\ \A i \in 1..(Len(d_cmds) - 1) : d_cmds[i].code = 0
    /\ (d_cmds # <<>> /\ d_cmds[Len(d_cmds)].code # 0) =>
          /\ d_pc \in {"finally", "exit"}
          /\ d_pc = "exit" => d_status = Some(1)
    /\ (~d_in.known \/ ~d_in.package) => d_cmds = <<>>

\* C27 witness: install, codegen and build ended with code 0, graph create with
\* code 2; the process has ended with status 1 and no deploy command was issued.
C27_Witness ==
    /\ d_pc = "exit"
    /\ Len(d_cmds) = 4
    /\ d_cmds[4] = [cmd |-> "graph create", code |-> 2]
    /\ d_status = Some(1)

--------------------------------------------------------------------------
(* Specification of prepare_dataset: a call of construct_verification_data *)
(* (prepare_dataset.py:44-58) on a directory, and a run of main (142-165)  *)
(* over a dataset and an index file. A directory is the set of the names   *)
(* os.listdir gives; a bytecode hash is a text, its first two characters   *)
(* the name of the directory its directory is in.                          *)

\* the names a contract directory may hold
FileNames == {"metadata.json", "main.sol", "main.vy", "contract.json", "A.sol", "B.sol"}

\* lines 63-72 with contract.json tested before main.vy
calculate_verification_method_standard_first(files) ==
    IF "contract.json" \in files THEN "SOLIDITY_STANDARD"
    ELSE IF "main.vy" \in files THEN "VYPER_SINGLE"
    ELSE IF Cardinality(files) > 2 THEN "SOLIDITY_MULTIPLE"
    ELSE "SOLIDITY_SINGLE"

\* lines 63-72
calculate_verification_method(files) ==
    IF "main.vy" \in files THEN "VYPER_SINGLE"
    ELSE IF "contract.json" \in files THEN "SOLIDITY_STANDARD"
    ELSE IF Cardinality(files) > 2 THEN "SOLIDITY_MULTIPLE"
    ELSE "SOLIDITY_SINGLE"

\* lines 21-31
to_string(method) ==
    CASE method = "SOLIDITY_SINGLE" -> "solidity_single"
      [] method = "SOLIDITY_MULTIPLE" -> "solidity_multiple"
      [] method = "SOLIDITY_STANDARD" -> "solidity_standard"
      [] method = "VYPER_SINGLE" -> "vyper_single"

\* the files of names are opened in order, each in the directory holding files:
\* the first one that is not there raises FileNotFoundError
RECURSIVE OpenInOrder(_, _, _)
OpenInOrder(names, files, opened) ==
    IF names = <<>> THEN [opened |-> opened, raised |-> ""]
    ELSE IF Head(names) \notin files
         THEN [opened |-> opened, raised |-> "FileNotFoundError"]
         ELSE OpenInOrder(Tail(names), files, opened \cup {Head(names)})

\* lines 74-78
construct_solidity_single_data(files) ==
    OpenInOrder(<<"metadata.json", "main.sol">>, files, {})

\* lines 90-99: metadata.json, then every other name of the listing
construct_solidity_multiple_data(files) ==
    IF "metadata.json" \notin files THEN [opened |-> {}, raised |-> "FileNotFoundError"]
    ELSE [opened |-> {"metadata.json"} \cup {f \in files : f # "metadata.json"},
          raised |-> ""]

\* lines 111-116
construct_solidity_standard_data(files) ==
    OpenInOrder(<<"metadata.json", "contract.json">>, files, {})

\* lines 126-130
construct_vyper_single_data(files) ==
    OpenInOrder(<<"metadata.json", "main.vy">>, files, {})

\* lines 47-56: the constructor of the method
construct_data(method, files) ==
    CASE method = "SOLIDITY_SINGLE" -> construct_solidity_single_data(files)
      [] method = "SOLIDITY_MULTIPLE" -> construct_solidity_multiple_data(files)
      [] method = "SOLIDITY_STANDARD" -> construct_solidity_standard_data(files)
      [] method = "VYPER_SINGLE" -> construct_vyper_single_data(files)

InitClassify ==
    /\ n_idle /\ m_idle /\ x_idle /\ e_idle /\ d_idle /\ g_idle /\ r_idle
    /\ c_files \in SUBSET FileNames
    /\ c_method = None
    /\ c_read = None

\* lines 45-46
CalculateVerificationMethod ==
    /\ c_method = None
    /\ c_method' = Some(calculate_verification_method(c_files))
    /\ UNCHANGED <<c_files, c_read, p_dataset, p_index, p_pc, p_li, p_hashes, p_out,
                   p_raised, n_vars, m_vars, x_vars, e_vars, d_vars, g_vars>>

\* lines 47-58
ConstructData ==
    /\ c_method # None
    /\ c_read = None
    /\ c_read' = Some(construct_data(c_method[1], c_files))
    /\ UNCHANGED <<c_files, c_method, p_dataset, p_index, p_pc, p_li, p_hashes, p_out,
                   p_raised, n_vars, m_vars, x_vars, e_vars, d_vars, g_vars>>

NextClassify == CalculateVerificationMethod \/ ConstructData

SpecClassify == InitClassify /\ [][NextClassify]_vars

\* the number of lines of the index file
MaxLines == 3

\* "aa1", "aa2", "bb1"
HashAa1 == <<97, 97, 49>>
HashAa2 == <<97, 97, 50>>
HashBb1 == <<98, 98, 49>>

\* line 60: the directory of a bytecode hash
build_dir(bytecode_hash) == <<SubSeq(bytecode_hash, 1, 2), bytecode_hash>>

\* the listings of the directories of a dataset
Listings ==
    { {"metadata.json", "main.sol"}, {"metadata.json", "main.vy"}, {"main.sol"} }

\* the datasets: each of two hashes has no directory or one directory, in the
\* directory named by its first two characters; the third hash has none
Datasets ==
    { { [path |-> build_dir(h), files |-> pick[h]] :
          h \in {g \in {HashAa1, HashBb1} : pick[g] # {}} } :
      pick \in [{HashAa1, HashBb1} -> Listings \cup {{}}] }

\* the lines of the index file, stripped and split at ':': address and hash, a
\* line with a third field, and the empty line
IndexLines ==
    { <<"0x1", HashAa1>>, <<"0x2", HashAa1>>, <<"0x1", HashBb1>>,
      <<"0x3", HashAa2, "">>, <<"">> }

\* lines 33-42: the names of the directories one level below the prefixes
get_bytecode_hashes(dataset) == {d.path[2] : d \in dataset}

\* line 64 on the directory of the hash: its listing, None when it is not there
listdir(dataset, path) ==
    IF \E d \in dataset : d.path = path
    THEN Some((CHOOSE d \in dataset : d.path = path).files)
    ELSE None

InitPrepare ==
    /\ n_idle /\ m_idle /\ x_idle /\ e_idle /\ d_idle /\ g_idle /\ c_idle
    /\ p_dataset \in Datasets
    /\ p_index \in SeqsUpTo(IndexLines, MaxLines)
    /\ p_pc = "start"
    /\ p_li = 0
    /\ p_hashes = {}
    /\ p_out = <<>>
    /\ p_raised = ""

\* lines 145-150
GetBytecodeHashes ==
    /\ p_pc = "start"
    /\ p_hashes' = get_bytecode_hashes(p_dataset)
    /\ p_li' = 1
    /\ p_pc' = "lines"
    /\ UNCHANGED <<p_dataset, p_index, p_out, p_raised, c_files, c_method, c_read,
                   n_vars, m_vars, x_vars, e_vars, d_vars, g_vars>>

\* the loop of line 151 is at a line
AtLine == p_pc = "lines" /\ p_li <= Len(p_index)

\* line 153 raising: the line has no second field
LineRaises ==
    /\ AtLine
    /\ Len(p_index[p_li]) < 2
    /\ p_pc' = "raised"
    /\ p_raised' = "IndexError"
    /\ UNCHANGED <<p_dataset, p_index, p_li, p_hashes, p_out, c_files, c_method,
                   c_read, n_vars, m_vars, x_vars, e_vars, d_vars, g_vars>>

\* line 154 false: the hash is not among the remaining ones
SkipLine ==
    /\ AtLine
    /\ Len(p_index[p_li]) >= 2
    /\ p_index[p_li][2] \notin p_hashes
    /\ p_li' = p_li + 1
    /\ UNCHANGED <<p_dataset, p_index, p_pc, p_hashes, p_out, p_raised, c_files,
                   c_method, c_read, n_vars, m_vars, x_vars, e_vars, d_vars, g_vars>>

\* lines 44-58 on the directory of the hash
construct_verification_data(dataset, bytecode_hash) ==
    LET files == listdir(dataset, build_dir(bytecode_hash)) IN
    IF files = None THEN [method |-> "", opened |-> {}, raised |-> "FileNotFoundError"]
    ELSE LET method == calculate_verification_method(files[1])
             data == construct_data(method, files[1])
         IN  [method |-> method, opened |-> data.opened, raised |-> data.raised]

\* the line at hand is written and its hash stays among the remaining ones
WriteLineKeepsHash ==
    /\ AtLine
    /\ Len(p_index[p_li]) >= 2
    /\ p_index[p_li][2] \in p_hashes
    /\ LET made == construct_verification_data(p_dataset, p_index[p_li][2]) IN
       /\ made.raised = ""
       /\ p_out' = Append(p_out, [filename |-> <<to_string(made.method), p_index[p_li][1]>>,
                                  bytecode_hash |-> p_index[p_li][2],
                                  line |-> p_li])
    /\ p_li' = p_li + 1
    /\ UNCHANGED <<p_dataset, p_index, p_pc, p_hashes, p_raised, c_files, c_method, c_read,
                   n_vars, m_vars, x_vars, e_vars, d_vars, g_vars>>

\* lines 154-162: the data of the hash is written to the file of the method and the
\* address, and the hash is removed from the remaining ones
WriteLine ==
    /\ AtLine
    /\ Len(p_index[p_li]) >= 2
    /\ p_index[p_li][2] \in p_hashes
    /\ LET made == construct_verification_data(p_dataset, p_index[p_li][2]) IN
       /\ made.raised = ""
       /\ p_out' = Append(p_out, [filename |-> <<to_string(made.method), p_index[p_li][1]>>,
                                  bytecode_hash |-> p_index[p_li][2],
                                  line |-> p_li])
    /\ p_hashes' = p_hashes \ {p_index[p_li][2]}
    /\ p_li' = p_li + 1
    /\ UNCHANGED <<p_dataset, p_index, p_pc, p_raised, c_files, c_method, c_read,
                   n_vars, m_vars, x_vars, e_vars, d_vars, g_vars>>

\* line 155 raising: a file of the method is not in the directory
ConstructRaises ==
    /\ AtLine
    /\ Len(p_index[p_li]) >= 2
    /\ p_index[p_li][2] \in p_hashes
    /\ construct_verification_data(p_dataset, p_index[p_li][2]).raised # ""
    /\ p_pc' = "raised"
    /\ p_raised' = construct_verification_data(p_dataset, p_index[p_li][2]).raised
    /\ UNCHANGED <<p_dataset, p_index, p_li, p_hashes, p_out, c_files, c_method,
                   c_read, n_vars, m_vars, x_vars, e_vars, d_vars, g_vars>>

\* line 151 exhausted
EndOfIndex ==
    /\ p_pc = "lines"
    /\ p_li > Len(p_index)
    /\ p_pc' = "done"
    /\ UNCHANGED <<p_dataset, p_index, p_li, p_hashes, p_out, p_raised, c_files,
                   c_method, c_read, n_vars, m_vars, x_vars, e_vars, d_vars, g_vars>>

NextPrepare ==
    \/ GetBytecodeHashes
    \/ LineRaises
    \/ SkipLine
    \/ WriteLine
    \/ ConstructRaises
    \/ EndOfIndex

SpecPrepare == InitPrepare /\ [][NextPrepare]_vars

--------------------------------------------------------------------------
(* Claims about prepare_dataset (checked under SpecPrepare and             *)
(* SpecClassify).                                                          *)

\* the hashes that have a directory in the dataset
DatasetHashes == {d.path[2] : d \in p_dataset}

\* the hashes written so far
WrittenHashes == {p_out[i].bytecode_hash : i \in 1..Len(p_out)}

\* the index lines that name the hash
LinesOf(h) == {j \in 1..Len(p_index) : Len(p_index[j]) >= 2 /\ p_index[j][2] = h}

\* what holds of the output and the remaining set once the set is built
OneFilePerHash ==
    p_pc # "start" =>
        /\ \A i, j \in 1..Len(p_out) :
              p_out[i].bytecode_hash = p_out[j].bytecode_hash => i = j
        /\ \A i \in 1..Len(p_out) :
              /\ p_out[i].line \in LinesOf(p_out[i].bytecode_hash)
              /\ \A j \in LinesOf(p_out[i].bytecode_hash) : p_out[i].line <= j
              /\ p_out[i].filename[2] = p_index[p_out[i].line][1]
        /\ WrittenHashes \subseteq DatasetHashes
        /\ p_hashes = DatasetHashes \ WrittenHashes
        /\ \A j \in 1..(p_li - 1) :
              (j \in LinesOf(p_index[j][2]) /\ p_index[j][2] \in DatasetHashes) =>
                  p_index[j][2] \in WrittenHashes

\* the remaining set loses hashes only, the output gains writes only
OnlyShrinks ==
    p_pc # "start" =>
        /\ p_hashes' \subseteq p_hashes
        /\ Len(p_out') >= Len(p_out)
        /\ SubSeq(p_out', 1, Len(p_out)) = p_out

\* C28: over any sequence of index lines each bytecode hash is written at most
\* once: by the first index line that names it, under that line's contract
\* address, and only if the dataset has it; the remaining set is the dataset's
\* hashes without the written ones at every point, so a later line with a written
\* hash and a line with a hash not in the dataset write nothing; the set only
\* shrinks.
C28_OneFilePerHash == [](OneFilePerHash) /\ [][OnlyShrinks]_vars

\* C28 witness: the run is over an index of two lines naming one hash of the
\* dataset and a line naming a hash that is not in it: one file is written, under
\* the address of the first line.
C28_Witness ==
    /\ p_pc = "done"
    /\ p_index = << <<"0x1", HashAa1>>, <<"0x2", HashAa1>>, <<"0x3", HashAa2, "">> >>
    /\ Len(p_out) = 1
    /\ p_out[1].filename = <<"solidity_single", "0x1">>
    /\ HashBb1 \in p_hashes

\* the files of a directory that belong to a method
Belonging(method, files) ==
    CASE method = "VYPER_SINGLE" -> {"main.vy"}
      [] method = "SOLIDITY_STANDARD" -> {"contract.json"}
      [] method = "SOLIDITY_SINGLE" -> {"main.sol"}
      [] method = "SOLIDITY_MULTIPLE" -> files \ {"metadata.json"}

\* C29: every directory listing is classified into one method by the priority
\* main.vy, then contract.json, then more than two files, else single file; and
\* construct_verification_data opens no file but metadata.json and the files of
\* that method, all of them when it does not raise.
C29_MethodByPriority ==
    /\ c_method # None =>
          /\ "main.vy" \in c_files => c_method[1] = "VYPER_SINGLE"
          /\ ("main.vy" \notin c_files /\ "contract.json" \in c_files) =>
                c_method[1] = "SOLIDITY_STANDARD"
          /\ ("main.vy" \notin c_files /\ "contract.json" \notin c_files
                /\ Cardinality(c_files) > 2) => c_method[1] = "SOLIDITY_MULTIPLE"
          /\ ("main.vy" \notin c_files /\ "contract.json" \notin c_files
                /\ Cardinality(c_files) <= 2) => c_method[1] = "SOLIDITY_SINGLE"
    /\ c_read # None =>
          /\ c_read[1].opened \subseteq
                {"metadata.json"} \cup Belonging(c_method[1], c_files)
          /\ c_read[1].raised = "" =>
                c_read[1].opened =
                    {"metadata.json"} \cup Belonging(c_method[1], c_files)

\* C29 witness: a directory holding main.vy, contract.json, metadata.json and a
\* Solidity file is classified VYPER_SINGLE, and metadata.json and main.vy are read.
C29_Witness ==
    /\ c_files = {"main.vy", "contract.json", "metadata.json", "A.sol"}
    /\ c_method = Some("VYPER_SINGLE")
    /\ c_read = Some([opened |-> {"metadata.json", "main.vy"}, raised |-> ""])

--------------------------------------------------------------------------
(* Specification of a run of get_abi_from_etherscan: main                  *)
(* (get_abi_from_etherscan.py:62-84). The API answers each request with a  *)
(* status, a message and a result; the answers are inputs of the run.      *)

\* the number of addresses of the command line
MaxAddresses == 2

\* the addresses "A" and "B" of the command line, and "I", an implementation
AddrA == <<65>>
AddrB == <<66>>
AddrI == <<73>>

\* ",".join(parts): the comma is code point 44
RECURSIVE str_join(_)
str_join(parts) ==
    IF Len(parts) = 1 THEN Head(parts)
    ELSE Head(parts) \o <<44>> \o str_join(Tail(parts))

\* str.split(','): the texts between the commas (code point 44)
RECURSIVE str_split(_)
str_split(text) ==
    IF \A i \in 1..Len(text) : text[i] # 44 THEN <<text>>
    ELSE LET k == CHOOSE i \in 1..Len(text) :
                      text[i] = 44 /\ \A j \in 1..(i - 1) : text[j] # 44
         IN  <<SubSeq(text, 1, k - 1)>> \o str_split(SubSeq(text, k + 1, Len(text)))

\* the values of --addresses: one to MaxAddresses addresses, separated by commas
AddressArguments ==
    {str_join(q) : q \in SeqsUpTo({AddrA, AddrB}, MaxAddresses) \ {<<>>}}

\* an answer of the API
Response(status, message, answer) ==
    [status |-> status, message |-> message, result |-> answer]

\* the answers to getsourcecode: a contract without the key Implementation, one
\* whose Implementation is '', a proxy of I, not verified, and another failure
SourceResponses ==
    { Response("1", "OK", << [Implementation |-> None] >>),
      Response("1", "OK", << [Implementation |-> Some(EmptyStr)] >>),
      Response("1", "OK", << [Implementation |-> Some(AddrI)] >>),
      Response("0", "NOTOK", <<>>),
      Response("0", "No data found", <<>>) }

\* the ABI the API has for a contract, as a text: that of I has its entries in
\* another order than the normalized one
AbiTextOf(address) ==
    IF address = AddrI THEN ExtraTransferSingle ELSE ExtraTransferApproval

\* the answers to getabi for an address: the ABI, not verified, another failure
AbiResponses(address) ==
    { Response("1", "OK", AbiTextOf(address)),
      Response("0", "NOTOK", EmptyStr),
      Response("0", "No data found", EmptyStr) }

\* the inputs of a run: the addresses and the answers the API gives for each
EtherscanInputs ==
    { [addresses |-> a, source |-> src, abi |-> abi] :
        a \in AddressArguments,
        src \in [{AddrA, AddrB} -> SourceResponses],
        abi \in { f \in [{AddrA, AddrB, AddrI} ->
                            UNION {AbiResponses(x) : x \in {AddrA, AddrB, AddrI}}] :
                    \A x \in {AddrA, AddrB, AddrI} : f[x] \in AbiResponses(x) } }

\* lines 38-50 on the answer r: the result, None when not verified, or an exception
make_get_request(r) ==
    IF r.status # "1"
    THEN IF r.message = "NOTOK"
         THEN [raised |-> FALSE, value |-> None]
         ELSE [raised |-> TRUE, value |-> None]
    ELSE [raised |-> FALSE, value |-> Some(r.result)]

\* lines 56-58
get_source_code(address) == make_get_request(g_in.source[address])

\* lines 52-54
get_abi(address) == make_get_request(g_in.abi[address])

\* line 73: contract.get('Implementation') or address
contract_address_of(contract, address) ==
    IF contract.Implementation # None /\ contract.Implementation[1] # EmptyStr
    THEN contract.Implementation[1]
    ELSE address

\* line 65: the addresses of the command line
addresses_of_run == str_split(g_in.addresses)

InitEtherscan ==
    /\ n_idle /\ m_idle /\ x_idle /\ e_idle /\ d_idle /\ p_idle
    /\ g_in \in EtherscanInputs
    /\ g_pc = "addresses"
    /\ g_i = 1
    /\ g_result = <<>>
    /\ g_requests = <<>>
    /\ g_output = None
    /\ g_raised = ""

\* the loop of line 67 is at an address
AtAddress == g_pc = "addresses" /\ g_i <= Len(addresses_of_run)

\* the address at hand, its contract, and the address its ABI is asked for
address_at_hand == addresses_of_run[g_i]
contract_at_hand == get_source_code(address_at_hand).value[1][1]
contract_address == contract_address_of(contract_at_hand, address_at_hand)

\* the request for the source code, and the two requests of an address
SourceRequest == <<[action |-> "getsourcecode", address |-> address_at_hand]>>
BothRequests == SourceRequest \o <<[action |-> "getabi", address |-> contract_address]>>

\* lines 68 and 46-47: the source-code lookup fails otherwise; main ends
SourceRaises ==
    /\ AtAddress
    /\ get_source_code(address_at_hand).raised
    /\ g_requests' = g_requests \o SourceRequest
    /\ g_pc' = "raised"
    /\ g_raised' = "Exception"
    /\ UNCHANGED <<g_in, g_i, g_result, g_output,
                   n_vars, m_vars, x_vars, e_vars, d_vars, p_vars>>

\* lines 68-71: the contract is not verified; on to the next address
SourceNotFound ==
    /\ AtAddress
    /\ ~get_source_code(address_at_hand).raised
    /\ get_source_code(address_at_hand).value = None
    /\ g_requests' = g_requests \o SourceRequest
    /\ g_i' = g_i + 1
    /\ UNCHANGED <<g_in, g_pc, g_result, g_output, g_raised,
                   n_vars, m_vars, x_vars, e_vars, d_vars, p_vars>>

\* the source code was found
SourceFound ==
    /\ AtAddress
    /\ ~get_source_code(address_at_hand).raised
    /\ get_source_code(address_at_hand).value # None

\* lines 72-75 and 80-81: the ABI lookup fails otherwise; main ends
AbiRaises ==
    /\ SourceFound
    /\ get_abi(contract_address).raised
    /\ g_requests' = g_requests \o BothRequests
    /\ g_pc' = "raised"
    /\ g_raised' = "Exception"
    /\ UNCHANGED <<g_in, g_i, g_result, g_output,
                   n_vars, m_vars, x_vars, e_vars, d_vars, p_vars>>

\* lines 72-78: the contract has no ABI; on to the next address
AbiMissing ==
    /\ SourceFound
    /\ ~get_abi(contract_address).raised
    /\ get_abi(contract_address).value = None
    /\ g_requests' = g_requests \o BothRequests
    /\ g_i' = g_i + 1
    /\ UNCHANGED <<g_in, g_pc, g_result, g_output, g_raised,
                   n_vars, m_vars, x_vars, e_vars, d_vars, p_vars>>

\* the normalized ABI stored under the address it was fetched from
StoreAbiUnderContractAddress ==
    /\ SourceFound
    /\ ~get_abi(contract_address).raised
    /\ get_abi(contract_address).value # None
    /\ ~abi_from_str(get_abi(contract_address).value[1]).raised
    /\ g_result' = DictSet(g_result, contract_address,
                           abi_from_str(get_abi(contract_address).value[1]).value)
    /\ g_requests' = g_requests \o BothRequests
    /\ g_i' = g_i + 1
    /\ UNCHANGED <<g_in, g_pc, g_output, g_raised,
                   n_vars, m_vars, x_vars, e_vars, d_vars, p_vars>>

\* lines 72-79: the normalized ABI is stored under the address of the command line
StoreAbi ==
    /\ SourceFound
    /\ ~get_abi(contract_address).raised
    /\ get_abi(contract_address).value # None
    /\ ~abi_from_str(get_abi(contract_address).value[1]).raised
    /\ g_result' = DictSet(g_result, address_at_hand,
                           abi_from_str(get_abi(contract_address).value[1]).value)
    /\ g_requests' = g_requests \o BothRequests
    /\ g_i' = g_i + 1
    /\ UNCHANGED <<g_in, g_pc, g_output, g_raised,
                   n_vars, m_vars, x_vars, e_vars, d_vars, p_vars>>

\* lines 83-84: the pool is written
DumpResult ==
    /\ g_pc = "addresses"
    /\ g_i > Len(addresses_of_run)
    /\ g_output' = Some(g_result)
    /\ g_pc' = "done"
    /\ UNCHANGED <<g_in, g_i, g_result, g_requests, g_raised,
                   n_vars, m_vars, x_vars, e_vars, d_vars, p_vars>>

NextEtherscan ==
    \/ SourceRaises
    \/ SourceNotFound
    \/ AbiRaises
    \/ AbiMissing
    \/ StoreAbi
    \/ DumpResult

SpecEtherscan == InitEtherscan /\ [][NextEtherscan]_vars

--------------------------------------------------------------------------
(* Claims about get_abi_from_etherscan (checked under SpecEtherscan).      *)

\* the addresses given on the command line
InputAddresses == {addresses_of_run[j] : j \in 1..Len(addresses_of_run)}

\* the answer is a success
Succeeded(r) == r.status = "1"
\* the answer reports the contract as not verified
NotVerified(r) == r.status # "1" /\ r.message = "NOTOK"
\* the answer is another failure
FailedOtherwise(r) == r.status # "1" /\ r.message # "NOTOK"

\* the address the ABI of input address a is asked for, when its source lookup
\* succeeded: the Implementation of the contract if it names one, else a
AbiAddress(a) ==
    LET impl == g_in.source[a].result[1].Implementation IN
    IF impl \in {None, Some(EmptyStr)} THEN a ELSE impl[1]

\* both lookups of the input address succeeded
BothSucceeded(a) ==
    Succeeded(g_in.source[a]) /\ Succeeded(g_in.abi[AbiAddress(a)])

\* a lookup made for the input address failed otherwise
SomeFailedOtherwise(a) ==
    \/ FailedOtherwise(g_in.source[a])
    \/ Succeeded(g_in.source[a]) /\ FailedOtherwise(g_in.abi[AbiAddress(a)])

\* C30: the written pool has an entry for an input address exactly when its
\* source-code lookup and its ABI lookup both succeeded; the entry is under the
\* input address, also when the ABI was asked for at the Implementation address,
\* and holds the normalized form of the ABI answered; an address answered NOTOK
\* with a status other than '1' is skipped and the run goes on; a lookup failing
\* otherwise ends the run at that address with nothing written, and the file is
\* written by completed runs only.
C30_PoolOfVerifiedAddresses ==
    /\ g_output # None =>
          /\ g_pc = "done"
          /\ DictKeys(g_output[1]) \subseteq InputAddresses
          /\ \A a \in InputAddresses :
                /\ DictHas(g_output[1], a) <=> BothSucceeded(a)
                /\ DictHas(g_output[1], a) =>
                      /\ DictGet(g_output[1], a) =
                            Sorted(json_loads(g_in.abi[AbiAddress(a)].result))
                      /\ [action |-> "getabi", address |-> AbiAddress(a)]
                            \in {g_requests[k] : k \in 1..Len(g_requests)}
    /\ g_pc = "raised" =>
          /\ g_output = None
          /\ SomeFailedOtherwise(addresses_of_run[g_i])
    /\ \A j \in 1..Len(addresses_of_run) :
          (j < g_i \/ g_pc = "done") => ~SomeFailedOtherwise(addresses_of_run[j])
    /\ g_pc = "done" => g_output # None

\* C30 witness: the run on "A,B" is complete; A is a proxy of I and its ABI, that
\* of I, is in the pool under A in normalized order; B was answered NOTOK and is
\* not in the pool, which has no other entry.
C30_Witness ==
    /\ g_pc = "done"
    /\ addresses_of_run = <<AddrA, AddrB>>
    /\ g_in.source[AddrA].result = << [Implementation |-> Some(AddrI)] >>
    /\ NotVerified(g_in.source[AddrB])
    /\ g_output = Some(<< [key |-> AddrA, value |-> AbiTransferSingle] >>)
====
